---- MODULE Spec2Model ----
(***************************************************************************)
(* Stock-take engine of emm-inventory: the Record Log kept by App          *)
(* (src/unnamed/part_000), the Catalog Store (src/utils/db.ts) and the     *)
(* ingestion / merge / backup / restore handlers of AdminDashboard         *)
(* (src/components/AdminDashboard.tsx).                                    *)
(*                                                                         *)
(* A JavaScript string is modelled as a sequence of one-character strings, *)
(* so that trimming, splitting and tokenizing are computed character by    *)
(* character as the code does.  The four CJK characters of the export      *)
(* header are written as the atoms "U76E4" "U9EDE" "U65E5" "U671F", each   *)
(* standing for one character.                                             *)
(***************************************************************************)
EXTENDS Integers, Sequences, FiniteSets, TLC

(***************************************************************************)
(* Bounds of the model.                                                    *)
(***************************************************************************)
MaxTime == 1
MaxUserChoice == 2
MaxOps == 3

(***************************************************************************)
(* String helpers (String.prototype.trim, split, join, slice).             *)
(***************************************************************************)
IsSpace(c) == c \in {" ", "\t", "\n", "\r"}

RECURSIVE TrimLeft(_)
TrimLeft(s) ==
    IF s = <<>> THEN <<>>
    ELSE IF IsSpace(Head(s)) THEN TrimLeft(Tail(s)) ELSE s

RECURSIVE TrimRight(_)
TrimRight(s) ==
    IF s = <<>> THEN <<>>
    ELSE IF IsSpace(s[Len(s)]) THEN TrimRight(SubSeq(s, 1, Len(s) - 1)) ELSE s

Trim(s) == TrimRight(TrimLeft(s))

\* parts.join(sep), the list taken by halves.
RECURSIVE Join(_, _)
Join(parts, sep) ==
    IF parts = <<>> THEN <<>>
    ELSE IF Len(parts) = 1 THEN parts[1]
    ELSE LET half == Len(parts) \div 2
         IN  Join(SubSeq(parts, 1, half), sep) \o sep
               \o Join(SubSeq(parts, half + 1, Len(parts)), sep)

\* cols[i] || '' for a zero-based index i: the empty string when the
\* column is absent (undefined) or empty.
Col(cols, i) == IF i + 1 <= Len(cols) THEN cols[i + 1] ELSE <<>>

\* str.startsWith(prefix), str.endsWith(suffix), str.includes(part)
StartsWith(s, prefix) ==
    Len(prefix) <= Len(s) /\ SubSeq(s, 1, Len(prefix)) = prefix

EndsWith(s, suffix) ==
    Len(suffix) <= Len(s) /\ SubSeq(s, Len(s) - Len(suffix) + 1, Len(s)) = suffix

Includes(s, part) ==
    \E k \in 0..(Len(s) - Len(part)) : SubSeq(s, k + 1, k + Len(part)) = part

\* text.split(/\r\n|\n/): the text is cut at each line feed, which takes a
\* carriage return right before it along; a lone carriage return ends no line.
\* The text is cut at one line feed, the first of its second half when there
\* is one, and each side is cut in the same way: the lines are the same
\* whichever line feed is taken first.
RECURSIVE SplitLines(_)
SplitLines(text) ==
    LET feeds == {k \in 1..Len(text) : text[k] = "\n"}
        later == {k \in feeds : 2 * k >= Len(text)}
    IN  IF feeds = {} THEN <<text>>
        ELSE LET from == IF later # {} THEN later ELSE feeds
                 e == CHOOSE k \in from : \A j \in from : k <= j
                 lineEnd == IF e > 1 /\ text[e - 1] = "\r" THEN e - 2 ELSE e - 1
             IN  SplitLines(SubSeq(text, 1, lineEnd))
                   \o SplitLines(SubSeq(text, e + 1, Len(text)))

(***************************************************************************)
(* Delimited-record tokenizer: splitCSV.                                   *)
(***************************************************************************)
\* val.replace(/""/g, '"')
RECURSIVE CollapseQuotes(_)
CollapseQuotes(s) ==
    IF Len(s) < 2 THEN s
    ELSE IF s[1] = "\"" /\ s[2] = "\"" THEN <<"\"">> \o CollapseQuotes(SubSeq(s, 3, Len(s)))
    ELSE <<s[1]>> \o CollapseQuotes(Tail(s))

Unquote(val) ==
    IF StartsWith(val, <<"\"">>) /\ EndsWith(val, <<"\"">>)
    THEN CollapseQuotes(SubSeq(val, 2, Len(val) - 1))
    ELSE val

\* The character loop of splitCSV: inQuote is toggled by every quote, so at
\* position k it is the parity of the quotes before k; a comma read while
\* inQuote is false ends the current field, every other character (quotes
\* included) is added to it.
QuotePositions(str) == {j \in 1..Len(str) : str[j] = "\""}

InQuoteAt(quotes, k) == Cardinality({j \in quotes : j < k}) % 2 = 1

Delimiters(str) ==
    LET quotes == QuotePositions(str)
    IN  {k \in 1..Len(str) : str[k] = "," /\ ~InQuoteAt(quotes, k)}

RECURSIVE SplitScan(_, _, _)
SplitScan(str, from, delims) ==
    LET later == {k \in delims : k >= from}
    IN  IF later = {} THEN <<Trim(SubSeq(str, from, Len(str)))>>
        ELSE LET d == CHOOSE k \in later : \A j \in later : k <= j
             IN  <<Trim(SubSeq(str, from, d - 1))>> \o SplitScan(str, d + 1, delims)

splitCSV(str) ==
    LET result == SplitScan(str, 1, Delimiters(str))
    IN  [k \in 1..Len(result) |-> Unquote(result[k])]

\* A faulty variant of the character loop: every comma ends a field.
RECURSIVE CharLoop_EveryComma(_, _, _, _, _)
CharLoop_EveryComma(str, i, inQuote, current, result) ==
    IF i > Len(str) THEN Append(result, Trim(current))
    ELSE IF str[i] = ","
         THEN CharLoop_EveryComma(str, i + 1, inQuote, <<>>, Append(result, Trim(current)))
         ELSE CharLoop_EveryComma(str, i + 1, inQuote, Append(current, str[i]), result)

\* The same loop, one character per step as splitCSV runs it: i is the
\* one-based index of the character read next.
RECURSIVE CharLoop(_, _, _, _, _)
CharLoop(str, i, inQuote, current, result) ==
    IF i > Len(str) THEN Append(result, Trim(current))
    ELSE LET char == str[i]
         IN  IF char = "\""
             THEN CharLoop(str, i + 1, ~inQuote, Append(current, char), result)
             ELSE IF char = "," /\ ~inQuote
             THEN CharLoop(str, i + 1, inQuote, <<>>, Append(result, Trim(current)))
             ELSE CharLoop(str, i + 1, inQuote, Append(current, char), result)

splitCSVChars(str) ==
    LET result == CharLoop(str, 1, FALSE, <<>>, <<>>)
    IN  [k \in 1..Len(result) |-> Unquote(result[k])]

(***************************************************************************)
(* Case and order of strings (toLowerCase, the key order of the table).    *)
(***************************************************************************)
UpperCase == <<"A", "B", "C", "D", "E", "F", "G", "H", "I", "J", "K", "L", "M",
               "N", "O", "P", "Q", "R", "S", "T", "U", "V", "W", "X", "Y", "Z">>
LowerCase == <<"a", "b", "c", "d", "e", "f", "g", "h", "i", "j", "k", "l", "m",
               "n", "o", "p", "q", "r", "s", "t", "u", "v", "w", "x", "y", "z">>

ToLowerChar(c) ==
    IF \E i \in 1..Len(UpperCase) : UpperCase[i] = c
    THEN LowerCase[CHOOSE i \in 1..Len(UpperCase) : UpperCase[i] = c]
    ELSE c

toLowerCase(s) == [i \in 1..Len(s) |-> ToLowerChar(s[i])]

ToUpperChar(c) ==
    IF \E i \in 1..Len(LowerCase) : LowerCase[i] = c
    THEN UpperCase[CHOOSE i \in 1..Len(LowerCase) : LowerCase[i] = c]
    ELSE c

toUpperCase(s) == [i \in 1..Len(s) |-> ToUpperChar(s[i])]

\* The characters of the model's keys in code-unit order.
CodeOrder == <<" ", "\"", ",", "0", "1", "2", "3", "4", "5", "6", "7", "8", "9">>
               \o UpperCase \o LowerCase

CharCode(c) == CHOOSE i \in 1..Len(CodeOrder) : CodeOrder[i] = c

\* s sorts before t as an IndexedDB string key.
RECURSIVE KeyLess(_, _)
KeyLess(s, t) ==
    IF t = <<>> THEN FALSE
    ELSE IF s = <<>> THEN TRUE
    ELSE IF Head(s) = Head(t) THEN KeyLess(Tail(s), Tail(t))
    ELSE CharCode(Head(s)) < CharCode(Head(t))

\* str.split(',')
RECURSIVE SplitComma(_)
SplitComma(str) ==
    LET commas == {k \in 1..Len(str) : str[k] = ","}
    IN  IF commas = {} THEN <<str>>
        ELSE LET c == CHOOSE k \in commas : \A j \in commas : k <= j
             IN  <<SubSeq(str, 1, c - 1)>> \o SplitComma(SubSeq(str, c + 1, Len(str)))

(***************************************************************************)
(* Named strings.                                                          *)
(***************************************************************************)
StOK == <<"O", "K">>
StNotFound == <<"N", "o", "t", " ", "F", "o", "u", "n", "d">>
StDuplicated == <<"D", "u", "p", "l", "i", "c", "a", "t", "e", "d">>
StChecked == <<"C", "h", "e", "c", "k", "e", "d">>
StIdle == <<"I", "D", "L", "E">>
ScanStatus == {StOK, StNotFound, StDuplicated, StChecked}

Kayra == <<"K", "a", "y", "r", "a">>
Lynn == <<"L", "y", "n", "n">>
Jamilla == <<"J", "a", "m", "i", "l", "l", "a">>
Hannah == <<"H", "a", "n", "n", "a", "h">>
Devin == <<"D", "e", "v", "i", "n">>
DefaultUsers == <<Kayra, Lynn, Jamilla, Hannah, Devin>>
Imported == <<"I", "m", "p", "o", "r", "t", "e", "d">>

P1 == <<"P", "1">>
P2 == <<"P", "2">>
P3 == <<"P", "3">>

(***************************************************************************)
(* The raw identifiers handed to the Scan Processor.                       *)
(***************************************************************************)
ScanInputs == << P1, <<" ", "P", "1", " ">>, <<" ", " ">>, <<>> >>

VARIABLES
    records,        \* App: records, the Record Log (head = most recent scan)
    lastRecord,     \* App: lastRecord, <<>> for undefined, else <<record>>
    lastScanStatus, \* App: lastScanStatus
    users,          \* App: users
    currentUser,    \* App: currentUser
    masterItems,    \* InventoryDB.masterItems, the set of stored rows
    now,            \* the clock read by Date.now()
    importing,      \* AdminDashboard: importing
    progress,       \* AdminDashboard: progress
    statusMsg,      \* AdminDashboard: statusMsg (which message is shown)
    chunkIdx,       \* handleFileUpload: number of chunks written so far
    processed,      \* handleFileUpload: processed
    upload,         \* handleFileUpload: which of CatalogFiles is being imported, 0 when none
    alert,          \* the alert() on screen, shown by merge or restore
    opCount,        \* number of handler runs so far (bounds the session)
    query,          \* a call of a query function: the function and its arguments
    answer,         \* what the call returned
    manualInput,    \* App: manualInput
    suggestions,    \* App: suggestions
    timer,          \* autocomplete effect: the debounce timer is set
    pending,        \* calls of db.searchMasterItems that have not resolved yet
    issued,         \* number of calls of db.searchMasterItems so far
    lastScannedCode, \* ScannerInput: lastScannedCodeRef, <<>> for null, else <<code>>
    lastScannedTime, \* ScannerInput: lastScannedTimeRef
    clock,          \* the time in ms the decode callback reads with Date.now()
    scanned,        \* the calls of onScan so far: the code passed and when
    lookups,        \* App.handleScan: the calls waiting for db.findItem
    reading,        \* handleMergeUpload: the calls waiting for readFileAsText
    exported,       \* handleExportScanned: the file downloaded, <<>> for none, else <<text>>
    merged,         \* the Record Log of the application the exported file is merged into
    backupFile,     \* handleBackupSystem: the snapshot downloaded last, <<>> for none, else <<jsonStr>>
    variant,        \* ScannerInput: which of the two versions of the component runs
    isScanning,     \* App: isScanning
    requestId,      \* ScannerInput: requestIdRef
    qrRef,          \* ScannerInput: html5QrCodeRef, 0 for null, else the instance
    qrState,        \* the Html5Qrcode instances made so far: state and the request that made it
    tasks,          \* the start and stop operations that have not returned yet
    cameraError,    \* ScannerInput: cameraError is set
    relatedItems,   \* HistoryList: relatedItems
    relatedLoading, \* HistoryList: relatedLoading
    relatedDeps,    \* HistoryList: the lastRecord the related-items effect ran for last
    relatedPending, \* the calls of db.findRelatedItems that have not resolved yet
    relatedIssued   \* number of calls of db.findRelatedItems so far

recordVars == <<records, lastRecord, lastScanStatus>>
importVars == <<importing, progress, statusMsg, chunkIdx, processed, upload>>
suggestVars == <<manualInput, suggestions, timer, pending, issued>>
scannerVars == <<lastScannedCode, lastScannedTime, clock, scanned>>
asyncVars == <<lookups, reading>>
exportVars == <<exported, merged>>
cameraVars == <<variant, isScanning, requestId, qrRef, qrState, tasks, cameraError>>
relatedVars == <<relatedItems, relatedLoading, relatedDeps, relatedPending, relatedIssued>>
componentVars == <<exportVars, backupFile, cameraVars, relatedVars>>
queryVars == <<query, answer, suggestVars, scannerVars, asyncVars, componentVars>>
vars == <<records, lastRecord, lastScanStatus, users, currentUser,
          masterItems, now, importing, progress, statusMsg, chunkIdx,
          processed, upload, alert, opCount, query, answer,
          manualInput, suggestions, timer, pending, issued,
          lastScannedCode, lastScannedTime, clock, scanned,
          lookups, reading, exported, merged, backupFile,
          variant, isScanning, requestId, qrRef, qrState, tasks, cameraError,
          relatedItems, relatedLoading, relatedDeps, relatedPending, relatedIssued>>
appVars == <<records, lastRecord, lastScanStatus, users, currentUser,
             masterItems, now, importing, progress, statusMsg, chunkIdx,
             processed, upload, alert, opCount>>

(***************************************************************************)
(* Catalog Store: the Dexie table masterItems, primary key PartID.         *)
(***************************************************************************)
\* A faulty variant: the description is column 8 alone, later columns are lost.
MasterItem_FirstColumnOnly(cols, description) ==
    [PartID |-> Col(cols, 0), VendorSN |-> Col(cols, 1),
     Project |-> Col(cols, 2), Class |-> Col(cols, 3),
     Location |-> Col(cols, 4), Vendor |-> Col(cols, 5),
     VendorPN |-> Col(cols, 6), CustomerPN |-> Col(cols, 7),
     Description |-> Col(cols, 8)]

MasterItem(cols, description) ==
    [PartID |-> Col(cols, 0), VendorSN |-> Col(cols, 1),
     Project |-> Col(cols, 2), Class |-> Col(cols, 3),
     Location |-> Col(cols, 4), Vendor |-> Col(cols, 5),
     VendorPN |-> Col(cols, 6), CustomerPN |-> Col(cols, 7),
     Description |-> description]

\* A faulty variant: an empty field of the new row keeps the stored value.
Put_MergeFields(table, item) ==
    LET old == {m \in table : m.PartID = item.PartID}
    IN  IF old = {} THEN table \cup {item}
        ELSE (table \ old)
               \cup {[f \in DOMAIN item |-> IF item[f] # <<>> THEN item[f] ELSE m[f]] :
                       m \in old}

\* Table.put of one row: the row replaces whatever is stored under its key.
Put(table, item) == {m \in table : m.PartID # item.PartID} \cup {item}

\* db.bulkAdd(items) = Table.bulkPut(items): the rows are put in order.
\* The items are put in their order, the list taken by halves: the second
\* half is put into the table the first half has left.
RECURSIVE bulkAdd(_, _)
bulkAdd(table, items) ==
    IF items = <<>> THEN table
    ELSE IF Len(items) = 1 THEN Put(table, items[1])
    ELSE LET half == Len(items) \div 2
             first == bulkAdd(table, SubSeq(items, 1, half))
             rest == SubSeq(items, half + 1, Len(items))
         IN  IF first = table THEN bulkAdd(table, rest) ELSE bulkAdd(first, rest)

\* db.findItem(partId) = Table.get(partId): <<>> for undefined.
findItem(table, partId) ==
    LET hit == {m \in table : m.PartID = partId}
    IN  IF hit = {} THEN <<>> ELSE <<CHOOSE m \in hit : TRUE>>

clearMasterData(table) == {}

(***************************************************************************)
(* Record Log.                                                             *)
(***************************************************************************)
SnapshotFields ==
    {"VendorSN", "Project", "Class", "Location", "Vendor", "VendorPN",
     "CustomerPN", "Description"}

\* A faulty variant: a record once found stays found after its removal.
FindRecord_Sticky(recs, partId) ==
    LET hits == {k \in 1..Len(recs) : recs[k].PartID = partId}
    IN  IF hits # {} THEN <<recs[CHOOSE k \in hits : \A j \in hits : k <= j]>>
        ELSE IF lastRecord # <<>> /\ lastRecord[1].PartID = partId THEN lastRecord
        ELSE <<>>

\* records.find(r => r.PartID === partId): <<>> for undefined.
RECURSIVE FindRecord(_, _)
FindRecord(recs, partId) ==
    IF recs = <<>> THEN <<>>
    ELSE IF Head(recs).PartID = partId THEN <<Head(recs)>>
    ELSE FindRecord(Tail(recs), partId)

IdsOf(recs) == {recs[i].id : i \in 1..Len(recs)}
PartIDsOf(recs) == {recs[i].PartID : i \in 1..Len(recs)}

\* generateId(): a token that no record on screen carries.
generateId(used) == CHOOSE n \in 1..(Cardinality(used) + 1) : n \notin used

UsedIds == IdsOf(records) \cup IdsOf(lastRecord)

\* masterItem?.field || ''
Snap(masterItem, field) ==
    IF masterItem = <<>> THEN <<>> ELSE masterItem[1][field]

NewScanRecord(id, t, status, user, partId, masterItem) ==
    [id |-> id, InventoryDate |-> t, Status |-> status, scannedBy |-> user,
     PartID |-> partId,
     VendorSN |-> Snap(masterItem, "VendorSN"),
     Project |-> Snap(masterItem, "Project"),
     Class |-> Snap(masterItem, "Class"),
     Location |-> Snap(masterItem, "Location"),
     Vendor |-> Snap(masterItem, "Vendor"),
     VendorPN |-> Snap(masterItem, "VendorPN"),
     CustomerPN |-> Snap(masterItem, "CustomerPN"),
     Description |-> Snap(masterItem, "Description")]

\* alert(...): the message shown and the numbers it carries.
Alert(msg, a, b) == [msg |-> msg, a |-> a, b |-> b]

NoAlert == Alert("none", 0, 0)

\* alert() is modal: it has been dismissed by the time another handler runs.
Dismissed == alert' = NoAlert

\* Every handler the operator starts counts towards the bound of the session.
Tick == opCount < MaxOps /\ opCount' = opCount + 1

\* No call of a query function: the state of the application alone.
NoRecord == [VendorPN |-> <<>>, Description |-> <<>>]
NoQuery == [fn |-> "none", text |-> <<>>, record |-> NoRecord, version |-> 1]
NoAnswer == [done |-> FALSE, list |-> <<>>, set |-> {}]

\* The application state with a given Record Log and nothing else done yet.
AppWith(log) ==
    /\ records = log
    /\ lastRecord = <<>>
    /\ lastScanStatus = StIdle
    /\ users = DefaultUsers
    /\ currentUser = DefaultUsers[1]
    /\ now = 0
    /\ importing = FALSE
    /\ progress = 0
    /\ statusMsg = "none"
    /\ chunkIdx = 0
    /\ processed = 0
    /\ upload = 0
    /\ alert = NoAlert
    /\ opCount = 0

AppInit == AppWith(<<>>)

\* The manual input is empty, no timer is set and no search is running.
SuggestIdle ==
    /\ manualInput = <<>>
    /\ suggestions = <<>>
    /\ timer = FALSE
    /\ pending = {}
    /\ issued = 0

\* No handler is waiting for a promise.
AsyncIdle ==
    /\ lookups = <<>>
    /\ reading = <<>>

\* Nothing has been exported, and the application a file would be merged
\* into has an empty Record Log.
ExportIdle ==
    /\ exported = <<>>
    /\ merged = <<>>

\* The scanner view is closed: no instance, no operation, no error.
CameraIdle ==
    /\ isScanning = FALSE
    /\ requestId = 0
    /\ qrRef = 0
    /\ qrState = <<>>
    /\ tasks = <<>>
    /\ cameraError = FALSE

\* The history view has looked up nothing yet.
RelatedIdle ==
    /\ relatedItems = {}
    /\ relatedLoading = FALSE
    /\ relatedDeps = <<>>
    /\ relatedPending = {}
    /\ relatedIssued = 0

ComponentsIdle ==
    /\ ExportIdle
    /\ backupFile = <<>>
    /\ CameraIdle
    /\ variant = 2
    /\ RelatedIdle

\* The scanner has decoded nothing yet.
ScannerIdle ==
    /\ lastScannedCode = <<>>
    /\ lastScannedTime = 0
    /\ clock = 0
    /\ scanned = <<>>

Init ==
    /\ AppInit
    /\ masterItems = {}
    /\ query = NoQuery
    /\ answer = NoAnswer
    /\ SuggestIdle
    /\ ScannerIdle
    /\ AsyncIdle
    /\ ComponentsIdle

(***************************************************************************)
(* Scan Processor: App.handleScan.                                         *)
(***************************************************************************)
\* A faulty variant: the duplicate scan also stamps the stored record as Duplicated.
ScanDuplicate_Stamps(existingRecord) ==
    /\ lastScanStatus' = StDuplicated
    /\ lastRecord' = existingRecord
    /\ records' = [k \in 1..Len(records) |->
                     IF records[k].id = existingRecord[1].id
                     THEN [records[k] EXCEPT !.Status = StDuplicated]
                     ELSE records[k]]
    /\ UNCHANGED now

\* The duplicate branch: the record found is shown, nothing is stored.
ScanDuplicate(existingRecord) ==
    /\ lastScanStatus' = StDuplicated
    /\ lastRecord' = existingRecord
    /\ UNCHANGED <<records, now>>

\* A faulty variant: the record is signed by the first operator of the list.
ScanRecord_FirstUser(partId, t) ==
    LET masterItem == findItem(masterItems, partId)
        status == IF masterItem # <<>> THEN StOK ELSE StNotFound
    IN  NewScanRecord(generateId(UsedIds), t, status, users[1], partId, masterItem)

\* The record a first scan of partId creates at clock value t.
ScanRecord(partId, t) ==
    LET masterItem == findItem(masterItems, partId)
        status == IF masterItem # <<>> THEN StOK ELSE StNotFound
    IN  NewScanRecord(generateId(UsedIds), t, status, currentUser, partId, masterItem)

\* A faulty variant: the new record is put at the end of the log.
Prepend_AtTail(newRecord, prev) == Append(prev, newRecord)

\* setRecords(prev => [newRecord, ...prev])
Prepend(newRecord, prev) == <<newRecord>> \o prev

\* The branch that queries the catalog and stores a new record.
ScanNew(partId) ==
    \E t \in now..MaxTime :
        LET newRecord == ScanRecord(partId, t)
        IN  /\ now' = t
            /\ records' = Prepend(newRecord, records)
            /\ lastRecord' = <<newRecord>>
            /\ lastScanStatus' = newRecord.Status

handleScan(partId) ==
    LET existingRecord == FindRecord(records, partId)
    IN  /\ Tick
        /\ UNCHANGED queryVars
        /\ IF Trim(partId) = <<>>
           THEN UNCHANGED <<records, lastRecord, lastScanStatus, now>>
           ELSE IF existingRecord # <<>>
           THEN ScanDuplicate(existingRecord)
           ELSE ScanNew(partId)
        /\ Dismissed
        /\ UNCHANGED <<users, currentUser, masterItems, importVars>>

handleUserSelect(user) ==
    /\ Tick
    /\ UNCHANGED queryVars
    /\ currentUser' = user
    /\ Dismissed
    /\ UNCHANGED <<recordVars, users, masterItems, now, importVars>>

(***************************************************************************)
(* Batch operations on the Record Log.                                     *)
(***************************************************************************)
deleteRecords(recs, ids) == SelectSeq(recs, LAMBDA r : r.id \notin ids)

updateRecordsStatus_All(recs, ids, newStatus) ==
    [k \in 1..Len(recs) |-> [recs[k] EXCEPT !.Status = newStatus]]

updateRecordsStatus(recs, ids, newStatus) ==
    [k \in 1..Len(recs) |->
        IF recs[k].id \in ids THEN [recs[k] EXCEPT !.Status = newStatus]
        ELSE recs[k]]

\* HistoryList.handleBatchDelete: onDelete(Array.from(selectedIds))
handleBatchDelete(selectedIds) ==
    /\ Tick
    /\ UNCHANGED queryVars
    /\ records' = deleteRecords(records, selectedIds)
    /\ Dismissed
    /\ UNCHANGED <<lastRecord, lastScanStatus, users, currentUser, masterItems, now,
                   importVars>>

\* HistoryList.handleBatchCheck: onUpdateStatus(Array.from(selectedIds), 'Checked')
handleBatchCheck(selectedIds) ==
    /\ Tick
    /\ UNCHANGED queryVars
    /\ records' = updateRecordsStatus(records, selectedIds, StChecked)
    /\ Dismissed
    /\ UNCHANGED <<lastRecord, lastScanStatus, users, currentUser, masterItems, now,
                   importVars>>

\* App.handleDeleteSingle, offered for records.slice(0, 3)
handleDeleteSingle(id) ==
    /\ Tick
    /\ UNCHANGED queryVars
    /\ records' = deleteRecords(records, {id})
    /\ IF lastRecord # <<>> /\ lastRecord[1].id = id
       THEN lastRecord' = <<>> /\ lastScanStatus' = StIdle
       ELSE UNCHANGED <<lastRecord, lastScanStatus>>
    /\ Dismissed
    /\ UNCHANGED <<users, currentUser, masterItems, now, importVars>>

\* A faulty variant: clearing the log clears the catalog as well.
clearRecords_AlsoMaster ==
    /\ Tick
    /\ UNCHANGED queryVars
    /\ records' = <<>>
    /\ lastScanStatus' = StIdle
    /\ lastRecord' = <<>>
    /\ masterItems' = clearMasterData(masterItems)
    /\ Dismissed
    /\ UNCHANGED <<users, currentUser, now, importVars>>

clearRecords ==
    /\ Tick
    /\ UNCHANGED queryVars
    /\ records' = <<>>
    /\ lastScanStatus' = StIdle
    /\ lastRecord' = <<>>
    /\ Dismissed
    /\ UNCHANGED <<users, currentUser, masterItems, now, importVars>>

\* A faulty variant: clearing the catalog blanks the snapshots of the records.
clearMaster_Cascade ==
    /\ Tick
    /\ UNCHANGED queryVars
    /\ masterItems' = clearMasterData(masterItems)
    /\ records' = [k \in 1..Len(records) |->
                     [records[k] EXCEPT !.Status = StNotFound, !.Description = <<>>]]
    /\ Dismissed
    /\ UNCHANGED <<lastRecord, lastScanStatus, users, currentUser, now, importVars>>

\* The "Clear Master" button of AdminDashboard.
clearMaster ==
    /\ Tick
    /\ UNCHANGED queryVars
    /\ masterItems' = clearMasterData(masterItems)
    /\ Dismissed
    /\ UNCHANGED <<recordVars, users, currentUser, now, importVars>>

(***************************************************************************)
(* Uploaded files.  A file either decodes to a text or makes               *)
(* readFileAsText reject.                                                  *)
(***************************************************************************)
Comma == <<",">>
LF == <<"\n">>
CRLF == <<"\r", "\n">>
\* What the handlers compute from the text alone: text.split(/\r\n|\n/) and,
\* for every line, line.trim() and splitCSV of the trimmed line.
ReadLines(text) ==
    LET lines == SplitLines(text)
    IN  [i \in 1..Len(lines) |->
           [raw |-> lines[i], line |-> Trim(lines[i]), cols |-> splitCSV(Trim(lines[i]))]]

File(text) == [decodes |-> TRUE, text |-> text, lines |-> ReadLines(text)]
Undecodable == [decodes |-> FALSE, text |-> <<>>, lines |-> <<>>]

WA == <<"W", "A">>
WB == <<"W", "B">>
V123 == <<"V", "1", "2", "3">>
S1 == <<"S", "1">>
NA == <<"N", "A">>
CatalogHeader == <<"I", "D">>

CR == <<"\r">>

\* const CHUNK_SIZE = 1000
CHUNK_SIZE == 1000

\* Two rows of the same PartID.
Rows1 ==
    << Join(<<P1, S1, <<>>, <<>>, <<>>, <<>>, <<>>, <<>>, WB>>, Comma),
       Join(<<P1, <<>>, <<>>, <<>>, <<>>, <<>>, <<>>, <<>>, WA>>, Comma) >>

\* One row more than a chunk holds: CHUNK_SIZE rows of P1, then one of P2.
BigRows == [i \in 1..(CHUNK_SIZE + 1) |-> IF i <= CHUNK_SIZE THEN P1 ELSE P2]

\* The header line and the rows, each line ended by the newline given.
CatalogText(rows, newline) == Join(<<CatalogHeader>> \o rows, newline)

\* A faulty variant: a row without PartID is loaded like any other.
CatalogRow_KeepsInvalid(row) ==
    IF row.line = <<>> THEN <<>>
    ELSE <<MasterItem(row.cols, Trim(Join(SubSeq(row.cols, 9, Len(row.cols)), Comma)))>>

\* The row of one line of the catalog file: <<>> when the line is skipped.
CatalogRow(row) ==
    LET line == row.line
        cols == row.cols
        description ==
            IF Len(cols) > 8 THEN Trim(Join(SubSeq(cols, 9, Len(cols)), Comma))
            ELSE Col(cols, 8)
    IN  IF line = <<>> THEN <<>>
        ELSE IF Len(cols) >= 1 /\ cols[1] # <<>>
             THEN <<MasterItem(cols, description)>>
        ELSE <<>>

\* The body of the loop over the lines, for the line of one-based index k.
ChunkStep_OneMore(lines, k, st) ==
    LET chunk == st.currentChunk \o CatalogRow(lines[k])
    IN  IF Len(chunk) > CHUNK_SIZE
        THEN [currentChunk |-> <<>>, chunks |-> Append(st.chunks, chunk)]
        ELSE [currentChunk |-> chunk, chunks |-> st.chunks]

ChunkStep(lines, k, st) ==
    LET chunk == st.currentChunk \o CatalogRow(lines[k])
    IN  IF Len(chunk) >= CHUNK_SIZE
        THEN [currentChunk |-> <<>>, chunks |-> Append(st.chunks, chunk)]
        ELSE [currentChunk |-> chunk, chunks |-> st.chunks]

\* The loop body run for the lines lo..hi in their order, the range taken
\* by halves: the second half starts from what the first half has left.
RECURSIVE ChunkLoop(_, _, _, _)
ChunkLoop(lines, lo, hi, st) ==
    IF lo > hi THEN st
    ELSE IF lo = hi THEN ChunkStep(lines, lo, st)
    ELSE LET mid == (lo + hi) \div 2
             left == ChunkLoop(lines, lo, mid, st)
         IN  IF left = st THEN ChunkLoop(lines, mid + 1, hi, st)
             ELSE ChunkLoop(lines, mid + 1, hi, left)

\* The loop over lines[startIndex..] and the push of the last chunk: k is
\* the one-based index of the first line read.
BuildChunks(lines, k, currentChunk, done) ==
    LET st == ChunkLoop(lines, k, Len(lines),
                        [currentChunk |-> currentChunk, chunks |-> done])
    IN  IF Len(st.currentChunk) > 0 THEN Append(st.chunks, st.currentChunk)
        ELSE st.chunks

\* A catalog file: what handleFileUpload computes from the text alone, the
\* lines and the chunks built from the lines after the header line.
CatalogFile(text) ==
    LET file == File(text)
    IN  [decodes |-> TRUE, text |-> text, lines |-> file.lines,
         chunks |-> BuildChunks(file.lines, 2, <<>>, <<>>)]

CatalogFiles ==
    << CatalogFile(CatalogText(Rows1, LF)),
       CatalogFile(Join(<<CatalogHeader,
                   Join(<<P1, S1, <<>>, <<>>, <<>>, <<>>, V123, <<>>, WB>>, Comma),
                   <<>>,
                   Join(<<<<>>, WA>>, Comma),
                   Join(<<P2, <<>>, <<>>, <<>>, <<>>, <<>>, V123, <<>>, NA, WA>>, Comma)>>,
                 CRLF)),
       CatalogFile(CatalogHeader),
       Undecodable,
       CatalogFile(CatalogText(Rows1, CRLF)),
       CatalogFile(CatalogText(Rows1, CR)),
       CatalogFile(CatalogText(BigRows, LF)) >>

\* chunks, the local variable of handleFileUpload while an import is running:
\* the chunks built from the file being imported.
chunks == IF upload = 0 THEN <<>> ELSE CatalogFiles[upload].chunks

(***************************************************************************)
(* Ingestion Pipeline: AdminDashboard.handleFileUpload.                    *)
(***************************************************************************)

\* A faulty variant: the fraction is cut to an integer, not rounded.
Pct_Floor(completed, total) == (100 * completed) \div total

\* Math.round(((i + 1) / chunks.length) * 100)
Pct(completed, total) == (200 * completed + total) \div (2 * total)

\* A faulty variant: the store is cleared before the file is decoded.
handleFileUpload_ClearsFirst(k) ==
    /\ Tick
    /\ UNCHANGED queryVars
    /\ ~importing
    /\ Dismissed
    /\ UNCHANGED <<recordVars, users, currentUser, now>>
    /\ IF ~CatalogFiles[k].decodes
       THEN /\ importing' = FALSE
            /\ progress' = 0
            /\ statusMsg' = "failed"
            /\ masterItems' = clearMasterData(masterItems)
            /\ UNCHANGED <<chunkIdx, processed, upload>>
       ELSE /\ masterItems' = clearMasterData(masterItems)
            /\ progress' = 0
            /\ processed' = 0
            /\ chunkIdx' = 0
            /\ LET built == CatalogFiles[k].chunks
               IN  IF built = <<>>
                   THEN /\ importing' = FALSE /\ statusMsg' = "done"
                        /\ upload' = 0
                   ELSE /\ importing' = TRUE /\ statusMsg' = "reading"
                        /\ upload' = k

\* A faulty variant: the store is not cleared, the rows are added to it.
handleFileUpload_Incremental(k) ==
    /\ Tick
    /\ UNCHANGED queryVars
    /\ ~importing
    /\ Dismissed
    /\ UNCHANGED <<recordVars, users, currentUser, now>>
    /\ IF ~CatalogFiles[k].decodes
       THEN /\ importing' = FALSE
            /\ progress' = 0
            /\ statusMsg' = "failed"
            /\ UNCHANGED <<masterItems, chunkIdx, processed, upload>>
       ELSE /\ masterItems' = masterItems
            /\ progress' = 0
            /\ processed' = 0
            /\ chunkIdx' = 0
            /\ LET built == CatalogFiles[k].chunks
               IN  IF built = <<>>
                   THEN /\ importing' = FALSE /\ statusMsg' = "done"
                        /\ upload' = 0
                   ELSE /\ importing' = TRUE /\ statusMsg' = "reading"
                        /\ upload' = k

\* From the file chosen up to the first batch write: read and decode, clear
\* the store, build the chunks.
handleFileUpload(k) ==
    /\ Tick
    /\ UNCHANGED queryVars
    /\ ~importing
    /\ Dismissed
    /\ UNCHANGED <<recordVars, users, currentUser, now>>
    /\ IF ~CatalogFiles[k].decodes
       THEN /\ importing' = FALSE
            /\ progress' = 0
            /\ statusMsg' = "failed"
            /\ UNCHANGED <<masterItems, chunkIdx, processed, upload>>
       ELSE /\ masterItems' = clearMasterData(masterItems)
            /\ progress' = 0
            /\ processed' = 0
            /\ chunkIdx' = 0
            /\ LET built == CatalogFiles[k].chunks
               IN  IF built = <<>>
                   THEN /\ importing' = FALSE /\ statusMsg' = "done"
                        /\ upload' = 0
                   ELSE /\ importing' = TRUE /\ statusMsg' = "reading"
                        /\ upload' = k

\* One turn of the batch loop; the loop ends after the last chunk.
UploadBatch ==
    /\ importing
    /\ UNCHANGED queryVars
    /\ UNCHANGED <<recordVars, users, currentUser, now, alert, opCount>>
    /\ chunkIdx < Len(chunks)
    /\ processed' = processed + Len(chunks[chunkIdx + 1])
    /\ progress' = Pct(chunkIdx + 1, Len(chunks))
    /\ IF chunkIdx + 1 = Len(chunks)
       THEN /\ importing' = FALSE /\ statusMsg' = "done"
            /\ chunkIdx' = 0 /\ upload' = 0
       ELSE /\ importing' = TRUE /\ statusMsg' = "chunk"
            /\ chunkIdx' = chunkIdx + 1 /\ upload' = upload
    /\ masterItems' = bulkAdd(masterItems, chunks[chunkIdx + 1])

UploadBatchFails_LeavesImporting ==
    /\ importing
    /\ chunkIdx < Len(chunks)
    /\ importing' = TRUE
    /\ statusMsg' = "failed"
    /\ chunkIdx' = 0
    /\ upload' = 0
    /\ UNCHANGED <<masterItems, progress, processed>>
    /\ UNCHANGED <<recordVars, users, currentUser, now, alert, opCount, queryVars>>

\* db.bulkAdd(chunks[i]) rejects: the write of the chunk is atomic, nothing of
\* it is stored, and the catch branch ends the import.
UploadBatchFails ==
    /\ importing
    /\ chunkIdx < Len(chunks)
    /\ importing' = FALSE
    /\ statusMsg' = "failed"
    /\ chunkIdx' = 0
    /\ upload' = 0
    /\ UNCHANGED <<masterItems, progress, processed>>
    /\ UNCHANGED <<recordVars, users, currentUser, now, alert, opCount, queryVars>>

(***************************************************************************)
(* Reconciler, merge: AdminDashboard.handleMergeUpload.                    *)
(***************************************************************************)
BOM == <<"BOM">>
HeaderMark == <<"U76E4", "U9EDE", "U65E5", "U671F">>
ExportHeader == HeaderMark \o <<",", "P", "a", "r", "t", "I", "D">>

NaN == -1

\* Date.parse of the date texts of this model; NaN for every other text.
Date1 == <<"2", "0", "2", "5", "/", "1", "/", "1">>
DateParse(dateStr) == IF dateStr = Date1 THEN 5 ELSE NaN

Normal == <<"N", "o", "r", "m", "a", "l">>
BadDate == <<"x">>

\* str.replace(/"/g, '""')
RECURSIVE DoubleQuotes(_)
DoubleQuotes(str) ==
    IF str = <<>> THEN <<>>
    ELSE (IF Head(str) = "\"" THEN <<"\"", "\"">> ELSE <<Head(str)>>)
         \o DoubleQuotes(Tail(str))

\* new Date(t).toLocaleString('zh-TW', { hour12: false }).replace(',', ''):
\* Date1 is the text of time 5; the text of every other time of this model
\* is one Date.parse does not read.
toLocaleString(t) == IF DateParse(Date1) = t THEN Date1 ELSE Date1 \o <<" ", "2", "4", ":">>

\* A faulty variant: the date column is ignored, every merged record is dated now.
MergeRecord_DatedNow(id, t, cols) ==
    LET description ==
            IF Len(cols) > 11 THEN Trim(Join(SubSeq(cols, 12, Len(cols) - 1), Comma))
            ELSE Col(cols, 11)
        last == Col(cols, Len(cols) - 1)
    IN  [id |-> id, InventoryDate |-> t, PartID |-> Col(cols, 1),
         VendorSN |-> Col(cols, 2), Project |-> Col(cols, 3),
         Class |-> Col(cols, 4), Location |-> Col(cols, 5),
         Status |-> IF Col(cols, 6) # <<>> THEN Col(cols, 6) ELSE StOK,
         Vendor |-> Col(cols, 8), VendorPN |-> Col(cols, 9),
         CustomerPN |-> Col(cols, 10), Description |-> description,
         scannedBy |-> IF last # <<>> THEN last ELSE Imported]

MergeRecord(id, t, cols) ==
    LET parsed == DateParse(Col(cols, 0))
        timestamp == IF Col(cols, 0) # <<>> /\ parsed # NaN THEN parsed ELSE t
        description ==
            IF Len(cols) > 11 THEN Trim(Join(SubSeq(cols, 12, Len(cols) - 1), Comma))
            ELSE Col(cols, 11)
        last == Col(cols, Len(cols) - 1)
    IN  [id |-> id, InventoryDate |-> timestamp, PartID |-> Col(cols, 1),
         VendorSN |-> Col(cols, 2), Project |-> Col(cols, 3),
         Class |-> Col(cols, 4), Location |-> Col(cols, 5),
         Status |-> IF Col(cols, 6) # <<>> THEN Col(cols, 6) ELSE StOK,
         Vendor |-> Col(cols, 8), VendorPN |-> Col(cols, 9),
         CustomerPN |-> Col(cols, 10), Description |-> description,
         scannedBy |-> IF last # <<>> THEN last ELSE Imported]

\* The loop over lines[startIndex..]: k is the one-based index of the line,
\* t the value Date.now() has while the loop runs.
RECURSIVE MergeRows(_, _, _, _, _)
MergeRows(lines, k, currentPartIds, used, t) ==
    IF k > Len(lines)
    THEN [newRecords |-> <<>>, addedCount |-> 0, skippedCount |-> 0]
    ELSE LET line == lines[k].line
             cols == lines[k].cols
             partID == Col(cols, 1)
             id == generateId(used)
         IN  IF line = <<>> THEN MergeRows(lines, k + 1, currentPartIds, used, t)
             ELSE IF partID # <<>> /\ partID \notin currentPartIds
             THEN LET rest == MergeRows(lines, k + 1, currentPartIds \cup {partID},
                                        used \cup {id}, t)
                  IN  [newRecords |-> <<MergeRecord(id, t, cols)>> \o rest.newRecords,
                       addedCount |-> rest.addedCount + 1,
                       skippedCount |-> rest.skippedCount]
             ELSE LET rest == MergeRows(lines, k + 1, currentPartIds, used, t)
                  IN  [newRecords |-> rest.newRecords,
                       addedCount |-> rest.addedCount,
                       skippedCount |-> rest.skippedCount + 1]

\* lines[0].startsWith(BOM) || lines[0].includes(header mark) ? 1 : 0
StartIndex(lines) ==
    IF StartsWith(lines[1].raw, BOM) \/ Includes(lines[1].raw, HeaderMark) THEN 1 ELSE 0

MergeResult(lines, recs, used, t) ==
    MergeRows(lines, StartIndex(lines) + 1, PartIDsOf(recs), used, t)

\* A ScanStatus column whose text is none of the four ScanStatus values.
Missing == <<"M", "i", "s", "s", "i", "n", "g">>

MergeFiles ==
    << File(Join(<<ExportHeader,
                   Join(<<Date1, P1, <<>>, <<>>, <<>>, <<>>, StOK, Normal, <<>>, V123,
                          <<>>, <<"\"">> \o WA \o <<"\"">>, Lynn>>, Comma),
                   Join(<<BadDate, P2, <<>>, <<>>, <<>>, <<>>, StNotFound, Normal, <<>>,
                          <<>>, <<>>, <<"\"", "\"">>, Kayra>>, Comma)>>, LF)),
       File(Join(<<Join(<<BadDate, P2, <<>>, <<>>, <<>>, <<>>, Missing>>, Comma),
                   <<>>,
                   Join(<<Date1, <<>>, S1>>, Comma),
                   Join(<<Date1, P2, S1>>, Comma)>>, LF)),
       Undecodable >>

handleMergeUpload(file) ==
    /\ Tick
    /\ UNCHANGED queryVars
    /\ UNCHANGED <<lastRecord, lastScanStatus, users, currentUser, masterItems, importVars>>
    /\ IF ~file.decodes
       THEN /\ alert' = Alert("mergeFailed", 0, 0)
            /\ UNCHANGED <<records, now>>
       ELSE \E t \in now..MaxTime :
              /\ now' = t
              /\ LET result == MergeResult(file.lines, records, UsedIds, t)
                 IN  /\ records' = records \o result.newRecords
                     /\ alert' = Alert("mergeDone", result.addedCount, result.skippedCount)

(***************************************************************************)
(* Matching Engine and Autocomplete Search: the queries of InventoryDB.    *)
(* db.ts holds two versions of the class; they differ in findRelatedItems. *)
(***************************************************************************)
\* record.VendorPN && record.VendorPN !== 'NA' && record.VendorPN.length > 2
UsableVendorPN(pn) == pn # <<>> /\ pn # NA /\ Len(pn) > 2

\* masterItems.where('VendorPN').equals(pn).toArray()
ByVendorPN(table, pn) == {m \in table : m.VendorPN = pn}

\* desc.split(',').map(p => p.trim()), first four parts joined by commas
SearchKey(description) ==
    LET desc == Trim(toLowerCase(description))
        split == SplitComma(desc)
        parts == [k \in 1..Len(split) |-> Trim(split[k])]
        first == SubSeq(parts, 1, IF Len(parts) < 4 THEN Len(parts) ELSE 4)
    IN  toLowerCase(Join(first, Comma))

\* masterItems.filter(item => (item.Description || '').toLowerCase().includes(searchKey))
ByDescription(table, searchKey) ==
    {m \in table : Includes(toLowerCase(m.Description), searchKey)}

\* A faulty variant: the description matches are added to the VendorPN matches.
findRelatedItems_AddsDescription(table, record) ==
    LET byVendorPN == IF UsableVendorPN(record.VendorPN)
                      THEN ByVendorPN(table, record.VendorPN) ELSE {}
    IN  byVendorPN \cup ByDescription(table, SearchKey(record.Description))

\* The first version: a search key shorter than 3 characters matches nothing.
findRelatedItems(table, record) ==
    LET byVendorPN == IF UsableVendorPN(record.VendorPN)
                      THEN ByVendorPN(table, record.VendorPN) ELSE {}
        searchKey == SearchKey(record.Description)
    IN  IF byVendorPN # {} THEN byVendorPN
        ELSE IF record.Description # <<>> /\ record.Description # NA
        THEN IF Len(searchKey) < 3 THEN {} ELSE ByDescription(table, searchKey)
        ELSE {}

\* A faulty variant: a usable VendorPN that matches nothing ends the search.
findRelatedItemsV2_NoFallThrough(table, record) ==
    IF UsableVendorPN(record.VendorPN) THEN ByVendorPN(table, record.VendorPN)
    ELSE IF record.Description # <<>> /\ record.Description # NA
    THEN ByDescription(table, SearchKey(record.Description))
    ELSE {}

\* The second version: both branches on the key length run the same filter.
findRelatedItemsV2(table, record) ==
    LET byVendorPN == IF UsableVendorPN(record.VendorPN)
                      THEN ByVendorPN(table, record.VendorPN) ELSE {}
        searchKey == SearchKey(record.Description)
    IN  IF byVendorPN # {} THEN byVendorPN
        ELSE IF record.Description # <<>> /\ record.Description # NA
        THEN IF Len(searchKey) < 5 THEN ByDescription(table, searchKey)
             ELSE ByDescription(table, searchKey)
        ELSE {}

\* The rows of a set in the key order of the table, at most limit of them.
RECURSIVE InKeyOrder(_, _)
InKeyOrder(items, limit) ==
    IF items = {} \/ limit = 0 THEN <<>>
    ELSE LET first == CHOOSE m \in items :
                        \A n \in items : n = m \/ KeyLess(m.PartID, n.PartID)
         IN  <<first>> \o InKeyOrder(items \ {first}, limit - 1)

SearchMatches(table, lower) ==
    {item \in table : \/ Includes(toLowerCase(item.PartID), lower)
                      \/ Includes(toLowerCase(item.VendorPN), lower)}

\* A faulty variant: the result is not capped.
searchMasterItems_NoLimit(table, term) ==
    IF term = <<>> \/ Len(term) < 2 THEN <<>>
    ELSE LET found == SearchMatches(table, toLowerCase(term))
         IN  InKeyOrder(found, Cardinality(found))

searchMasterItems(table, term) ==
    IF term = <<>> \/ Len(term) < 2 THEN <<>>
    ELSE InKeyOrder(SearchMatches(table, toLowerCase(term)), 5)

(***************************************************************************)
(* Reconciler, backup and restore.                                         *)
(***************************************************************************)
\* JSON.stringify and JSON.parse of a list of strings or of flat records of
\* strings and numbers.
JsonText(value) == [json |-> value]
JsonParse(text) == text.json

\* A faulty variant: the snapshot embeds the catalog items.
BackupData_EmbedsCatalog(t) ==
    [version |-> <<"1", ".", "5">>, timestamp |-> t, users |-> users,
     records |-> records, masterCount |-> Cardinality(masterItems),
     master |-> masterItems]

\* The document handleBackupSystem serializes.
BackupData(t) ==
    [version |-> <<"1", ".", "5">>, timestamp |-> t, users |-> users,
     records |-> records, masterCount |-> Cardinality(masterItems)]

\* The backup is downloaded; nothing of the state of the application changes.
handleBackupSystem ==
    /\ Tick
    /\ Dismissed
    /\ backupFile' = <<JsonText(BackupData(now))>>
    /\ UNCHANGED <<query, answer, suggestVars, scannerVars, asyncVars, exportVars, cameraVars,
                   relatedVars>>
    /\ UNCHANGED <<recordVars, users, currentUser, masterItems, now, importVars>>

\* What JSON.parse makes of a snapshot file: "throw" (not JSON), "null",
\* "prim" (a number, string or boolean) or "obj"; a field of an object is
\* "absent", a "list", or "other" (present and not a list).
Absent == [t |-> "absent", v |-> <<>>]
List(v) == [t |-> "list", v |-> v]
Other == [t |-> "other", v |-> <<>>]
Unparseable == [kind |-> "throw", users |-> Absent, records |-> Absent]
JsonNull == [kind |-> "null", users |-> Absent, records |-> Absent]
JsonPrim == [kind |-> "prim", users |-> Absent, records |-> Absent]
JsonObj(u, r) == [kind |-> "obj", users |-> u, records |-> r]

SnapRec(id, partId, status, desc) ==
    [id |-> id, InventoryDate |-> 0, Status |-> status, scannedBy |-> Lynn,
     PartID |-> partId, VendorSN |-> <<>>, Project |-> <<>>, Class |-> <<>>,
     Location |-> <<>>, Vendor |-> <<>>, VendorPN |-> <<>>, CustomerPN |-> <<>>,
     Description |-> desc]

Snapshots ==
    << Unparseable,
       JsonNull,
       JsonPrim,
       JsonObj(List(<<Lynn>>), List(<<>>)),
       JsonObj(Absent, List(<<SnapRec(8, P1, StOK, WA), SnapRec(9, P1, StChecked, WB)>>)),
       JsonObj(List(<<Lynn>>), Other),
       JsonObj(Other, List(<<SnapRec(8, P1, StOK, WA)>>)),
       JsonObj(List(<<Lynn, <<>>>>), Absent) >>

\* A faulty variant: the snapshot's records are added to the log instead of replacing it.
handleRestoreSystem_Merges(data) ==
    /\ Tick
    /\ UNCHANGED queryVars
    /\ IF data.kind \in {"throw", "null"}
       THEN /\ alert' = Alert("restoreFailed", 0, 0)
            /\ UNCHANGED <<users, records>>
       ELSE /\ users' = IF data.users.t = "list" THEN data.users.v ELSE users
            /\ records' = IF data.records.t = "list" THEN records \o data.records.v
                           ELSE records
            /\ alert' = Alert("restoreDone", Len(data.records.v), 0)
    /\ UNCHANGED <<lastRecord, lastScanStatus, currentUser, masterItems, now, importVars>>

handleRestoreSystem(data) ==
    /\ Tick
    /\ UNCHANGED queryVars
    /\ IF data.kind \in {"throw", "null"}
       THEN /\ alert' = Alert("restoreFailed", 0, 0)
            /\ UNCHANGED <<users, records>>
       ELSE /\ users' = IF data.users.t = "list" THEN data.users.v ELSE users
            /\ records' = IF data.records.t = "list" THEN data.records.v ELSE records
            /\ alert' = Alert("restoreDone", Len(data.records.v), 0)
    /\ UNCHANGED <<lastRecord, lastScanStatus, currentUser, masterItems, now, importVars>>

\* What JSON.parse makes of a snapshot handleBackupSystem wrote: an object
\* whose users and records are arrays.
ParsedBackup(jsonStr) ==
    JsonObj(List(JsonParse(jsonStr).users), List(JsonParse(jsonStr).records))

\* The operator restores the snapshot downloaded last.
restoreBackup ==
    /\ backupFile # <<>>
    /\ handleRestoreSystem(ParsedBackup(backupFile[1]))

(***************************************************************************)
(* Reconciler, full stock-take report: handleExportFullReport.  A row is   *)
(* the list of its 13 columns, before they are joined with commas.         *)
(***************************************************************************)
Unscanned == <<"U672A", "U76E4", "U9EDE">>
NotInList == <<"U6B64", "U7269", "U6599", "U4E0D", "U5728", "U6E05", "U55AE", "U4E2D">>
Dash == <<"-">>

Quoted(description) == <<"\"">> \o DoubleQuotes(description) \o <<"\"">>

\* scannedMap after records.forEach(r => scannedMap.set(r.PartID, r)): the
\* keys in the order they were first set, each with the value set last.
RECURSIVE MapKeys(_)
MapKeys(recs) ==
    IF recs = <<>> THEN <<>>
    ELSE LET before == MapKeys(SubSeq(recs, 1, Len(recs) - 1))
             key == recs[Len(recs)].PartID
         IN  IF \E k \in 1..Len(before) : before[k] = key THEN before
             ELSE Append(before, key)

MapGet(recs, key) ==
    LET at == {k \in 1..Len(recs) : recs[k].PartID = key}
    IN  IF at = {} THEN <<>>
        ELSE <<recs[CHOOSE k \in at : \A j \in at : j <= k]>>

\* The row of a catalog item: with the record of its PartID, or as missing.
MasterRow(master, record) ==
    IF record # <<>>
    THEN <<toLocaleString(record[1].InventoryDate), master.PartID, master.VendorSN,
           master.Project, master.Class, master.Location, record[1].Status, Normal,
           master.Vendor, master.VendorPN, master.CustomerPN,
           Quoted(master.Description), record[1].scannedBy>>
    ELSE <<<<>>, master.PartID, master.VendorSN, master.Project, master.Class,
           master.Location, Unscanned, Missing, master.Vendor, master.VendorPN,
           master.CustomerPN, Quoted(master.Description), Dash>>

\* The row of a record left in scannedMap after the catalog rows.
ExtraRow(record) ==
    <<toLocaleString(record.InventoryDate), record.PartID, record.VendorSN,
      record.Project, record.Class, record.Location, record.Status, NotInList,
      record.Vendor, record.VendorPN, record.CustomerPN,
      Quoted(record.Description), record.scannedBy>>

\* The rows of the report: db.masterItems.each runs in the order of the
\* primary key, scannedMap.forEach in the order of the keys left.
FullReportRows(table, recs) ==
    LET masters == InKeyOrder(table, Cardinality(table))
        left == SelectSeq(MapKeys(recs), LAMBDA key : \A m \in table : m.PartID # key)
    IN  [k \in 1..Len(masters) |-> MasterRow(masters[k], MapGet(recs, masters[k].PartID))]
          \o [k \in 1..Len(left) |-> ExtraRow(MapGet(recs, left[k])[1])]

\* The report is downloaded; nothing of the state of the application changes.
handleExportFullReport ==
    /\ Tick
    /\ UNCHANGED queryVars
    /\ Dismissed
    /\ UNCHANGED <<recordVars, users, currentUser, masterItems, now, importVars>>

(***************************************************************************)
(* Stock-status view: StockStatus, the figures it shows for the catalog    *)
(* and the Record Log it is rendered with.                                 *)
(***************************************************************************)
CUSTOMER_CATEGORIES == {"ALL", "A26", "A31", "C38", "INT", "OTHERS"}

\* The category of a PartID: the prefix of the trimmed, upper-cased id.
CustomerOf(partId) ==
    LET id == toUpperCase(Trim(partId))
    IN  IF StartsWith(id, <<"A", "2", "6">>) THEN "A26"
        ELSE IF StartsWith(id, <<"A", "3", "1">>) THEN "A31"
        ELSE IF StartsWith(id, <<"C", "3", "8">>) THEN "C38"
        ELSE IF StartsWith(id, <<"I", "N", "T">>) THEN "INT"
        ELSE "OTHERS"

\* fetchMasterStats: the number of catalog items, in all and per category.
masterCounts(table) ==
    [total |-> Cardinality(table),
     byCustomer |-> [c \in CUSTOMER_CATEGORIES \ {"ALL"} |->
                       Cardinality({m \in table : CustomerOf(m.PartID) = c})]]

\* scannedStats: the records with Status OK or Checked, in all and per category.
scannedStats(recs) ==
    LET done == {i \in 1..Len(recs) : recs[i].Status = StOK \/ recs[i].Status = StChecked}
    IN  [total |-> Cardinality(done),
         byCustomer |-> [c \in CUSTOMER_CATEGORIES \ {"ALL"} |->
                           Cardinality({i \in done : CustomerOf(recs[i].PartID) = c})]]

displayData(customerFilter, table, recs) ==
    IF customerFilter = "ALL"
    THEN [target |-> masterCounts(table).total, current |-> scannedStats(recs).total]
    ELSE [target |-> masterCounts(table).byCustomer[customerFilter],
          current |-> scannedStats(recs).byCustomer[customerFilter]]

\* Math.round((current / target) * 100), 0 for a target of 0
progressPct(data) ==
    IF data.target > 0 THEN (200 * data.current + data.target) \div (2 * data.target)
    ELSE 0

(***************************************************************************)
(* The operator list of the admin view.                                    *)
(***************************************************************************)
\* The names typed in the new-operator field.
NewUsers == {<<" ", "Z">>}

addUser(newUser) ==
    /\ Tick
    /\ UNCHANGED queryVars
    /\ Dismissed
    /\ users' = IF Trim(newUser) # <<>> /\ ~(\E k \in 1..Len(users) : users[k] = Trim(newUser))
                THEN Append(users, Trim(newUser))
                ELSE users
    /\ UNCHANGED <<recordVars, currentUser, masterItems, now, importVars>>

removeUser(u) ==
    /\ Tick
    /\ UNCHANGED queryVars
    /\ Dismissed
    /\ users' = SelectSeq(users, LAMBDA user : user # u)
    /\ UNCHANGED <<recordVars, currentUser, masterItems, now, importVars>>

(***************************************************************************)
(* Persistence: the effects that write localStorage after every change of  *)
(* records, users and currentUser, and the initialisers that read it when  *)
(* the application starts.  An item is <<>> when getItem returns null and  *)
(* <<text>> otherwise.                                                     *)
(***************************************************************************)
EmptyStorage == [zen_records |-> <<>>, zen_users |-> <<>>, zen_current_user |-> <<>>]

localStorage_StaleRecords ==
    [zen_records |-> <<>>,
     zen_users |-> <<JsonText(users)>>,
     zen_current_user |-> <<currentUser>>]

\* The storage once the three effects have run.
localStorage ==
    [zen_records |-> <<JsonText(records)>>,
     zen_users |-> <<JsonText(users)>>,
     zen_current_user |-> <<currentUser>>]

LoadUsers(storage) ==
    LET s == storage.zen_users
        parsed == IF s # <<>> THEN JsonParse(s[1]) ELSE <<>>
    IN  IF Len(parsed) > 0 THEN parsed ELSE DefaultUsers

LoadCurrentUser(storage) ==
    LET item == storage.zen_current_user
    IN  IF item # <<>> /\ item[1] # <<>> THEN item[1] ELSE LoadUsers(storage)[1]

LoadRecords(storage) ==
    LET saved == storage.zen_records
    IN  IF saved # <<>> THEN JsonParse(saved[1]) ELSE <<>>

\* The state the initialisers of App compute from the storage.
Startup(storage) ==
    [records |-> LoadRecords(storage),
     users |-> LoadUsers(storage),
     currentUser |-> LoadCurrentUser(storage)]

Next ==
    \/ \E i \in 1..Len(ScanInputs) : handleScan(ScanInputs[i])
    \/ \E k \in 1..MaxUserChoice : k <= Len(users) /\ handleUserSelect(users[k])
    \/ \E newUser \in NewUsers : addUser(newUser)
    \/ \E k \in 1..MaxUserChoice : k <= Len(users) /\ removeUser(users[k])
    \/ \E ids \in SUBSET IdsOf(records) : ids # {} /\ handleBatchDelete(ids)
    \/ \E ids \in SUBSET IdsOf(records) : ids # {} /\ handleBatchCheck(ids)
    \/ \E k \in 1..3 : k <= Len(records) /\ handleDeleteSingle(records[k].id)
    \/ clearRecords
    \/ clearMaster
    \/ \E k \in 1..Len(CatalogFiles) : handleFileUpload(k)
    \/ UploadBatch
    \/ UploadBatchFails
    \/ \E k \in 1..Len(MergeFiles) : handleMergeUpload(MergeFiles[k])
    \/ handleBackupSystem
    \/ \E k \in 1..Len(Snapshots) : handleRestoreSystem(Snapshots[k])
    \/ restoreBackup
    \/ handleExportFullReport

Spec == Init /\ [][Next]_vars

\* The batch loop is a chain of awaited promises and zero-delay timers: the
\* event loop runs its next turn, whatever else the operator does.
LiveSpec == Spec /\ WF_vars(UploadBatchFails \/ UploadBatch)

\* Scans, operator selection and catalog loads only: no other operation on
\* the Record Log.
ScanNext ==
    \/ \E i \in 1..Len(ScanInputs) : handleScan(ScanInputs[i])
    \/ \E k \in 1..MaxUserChoice : k <= Len(users) /\ handleUserSelect(users[k])
    \/ \E k \in 1..Len(CatalogFiles) : handleFileUpload(k)
    \/ UploadBatch
    \/ clearMaster

ScanSpec == Init /\ [][ScanNext]_vars

(***************************************************************************)
(* Calls of the query functions on their own: the tokenizer on a line, the *)
(* Matching Engine and the Autocomplete Search on a loaded catalog.        *)
(***************************************************************************)
MaxLen == 4

TokAlphabet == {"a", ",", "\"", " "}

\* a,"b,c",d and a,"b""c",d
Line1 == <<"a", ",", "\"", "b", ",", "c", "\"", ",", "d">>
Line2 == <<"a", ",", "\"", "b", "\"", "\"", "c", "\"", ",", "d">>

TokInputs ==
    UNION {[1..n -> TokAlphabet] : n \in 0..MaxLen} \cup {Line1, Line2}

P4 == <<"P", "4">>
P5 == <<"P", "5">>
P6 == <<"P", "6">>
V1 == <<"V", "1">>
V999 == <<"V", "9", "9", "9">>
WidRecord == <<"W", "i", "d", ",", " ", "B", ",", "c", ",", "d", ",", "e">>
WidItem == <<"W", "I", "D", ",", "b", ",", "c", ",", "d", ",", "z", "z">>
WidOther == <<"W", "i", "d", ",", " ", "B">>
Blank == <<" ", " ">>

Item(partId, vendorPN, description) ==
    [PartID |-> partId, VendorSN |-> <<>>, Project |-> <<>>, Class |-> <<>>,
     Location |-> <<>>, Vendor |-> <<>>, VendorPN |-> vendorPN,
     CustomerPN |-> <<>>, Description |-> description]

Catalog1 ==
    {Item(P1, V123, WA), Item(P2, V123, WidItem), Item(P3, NA, NA),
     Item(P4, V1, <<"w", "a", ",", "b">>), Item(P5, <<>>, WidOther)}

Catalog2 == {Item(p, V123, WA) : p \in {P1, P2, P3, P4, P5, P6}}

QueryCatalogs == {{}, Catalog1, Catalog2}

RelRecords ==
    {[VendorPN |-> v, Description |-> d] :
       v \in {<<>>, NA, V1, V123, V999},
       d \in {<<>>, NA, WA, WidRecord, WidOther, Blank}}

SearchTerms == {<<>>, <<"V">>, <<"v", "1", "2">>, <<"p", "1">>, <<"Z", "Z">>}

Queries ==
    {[fn |-> "splitCSV", text |-> t, record |-> NoRecord, version |-> 1] : t \in TokInputs}
      \cup {[fn |-> "findRelatedItems", text |-> <<>>, record |-> r, version |-> v] :
              r \in RelRecords, v \in {1, 2}}
      \cup {[fn |-> "searchMasterItems", text |-> t, record |-> NoRecord, version |-> 1] :
              t \in SearchTerms}

QueryInit ==
    /\ AppInit
    /\ query \in Queries
    /\ masterItems \in (IF query.fn = "splitCSV" THEN {{}} ELSE QueryCatalogs)
    /\ answer = NoAnswer
    /\ SuggestIdle
    /\ ScannerIdle
    /\ AsyncIdle
    /\ ComponentsIdle

Tokenize ==
    /\ query.fn = "splitCSV"
    /\ ~answer.done
    /\ answer' = [done |-> TRUE, list |-> splitCSVChars(query.text), set |-> {}]
    /\ UNCHANGED <<query, appVars, suggestVars, scannerVars, asyncVars, componentVars>>

Relate ==
    /\ query.fn = "findRelatedItems"
    /\ ~answer.done
    /\ answer' = [done |-> TRUE, list |-> <<>>,
                  set |-> IF query.version = 1
                          THEN findRelatedItems(masterItems, query.record)
                          ELSE findRelatedItemsV2(masterItems, query.record)]
    /\ UNCHANGED <<query, appVars, suggestVars, scannerVars, asyncVars, componentVars>>

Search ==
    /\ query.fn = "searchMasterItems"
    /\ ~answer.done
    /\ answer' = [done |-> TRUE, list |-> searchMasterItems(masterItems, query.text),
                  set |-> {}]
    /\ UNCHANGED <<query, appVars, suggestVars, scannerVars, asyncVars, componentVars>>

QueryNext == Tokenize \/ Relate \/ Search

QuerySpec == QueryInit /\ [][QueryNext]_vars

(***************************************************************************)
(* Autocomplete: the effect of App on manualInput, a timer of 300 ms that  *)
(* starts fetchSuggestions, which awaits db.searchMasterItems.             *)
(***************************************************************************)
MaxIssued == 2

\* onChange of the manual input: setManualInput(text).  The cleanup of the
\* effect clears the timer of the earlier input, the effect sets a new one.
Type(text) ==
    /\ text # manualInput
    /\ manualInput' = text
    /\ timer' = TRUE
    /\ UNCHANGED <<suggestions, pending, issued, query, answer, appVars, scannerVars, asyncVars, componentVars>>

\* The timer fires: fetchSuggestions runs up to its await.
Fire ==
    /\ timer
    /\ timer' = FALSE
    /\ IF Len(manualInput) < 2
       THEN /\ suggestions' = <<>>
            /\ UNCHANGED <<pending, issued>>
       ELSE /\ issued < MaxIssued
            /\ issued' = issued + 1
            /\ pending' = pending \cup {[term |-> manualInput, id |-> issued + 1]}
            /\ UNCHANGED suggestions
    /\ UNCHANGED <<manualInput, query, answer, appVars, scannerVars, asyncVars, componentVars>>

\* A call of db.searchMasterItems resolves, fetchSuggestions goes on after
\* its await: setSuggestions(matched).  The calls read the table in
\* transactions of their own and resolve in any order.
Resolve(q) ==
    /\ q \in pending
    /\ pending' = pending \ {q}
    /\ suggestions' = searchMasterItems(masterItems, q.term)
    /\ UNCHANGED <<manualInput, timer, issued, query, answer, appVars, scannerVars, asyncVars, componentVars>>

SuggestInit ==
    /\ AppInit
    /\ masterItems \in QueryCatalogs \ {{}}
    /\ query = NoQuery
    /\ answer = NoAnswer
    /\ SuggestIdle
    /\ ScannerIdle
    /\ AsyncIdle
    /\ ComponentsIdle

SuggestNext ==
    \/ \E text \in SearchTerms : Type(text)
    \/ Fire
    \/ \E q \in pending : Resolve(q)

SuggestSpec == SuggestInit /\ [][SuggestNext]_vars

(***************************************************************************)
(* Scanner: the decode callback of ScannerInput and its cooldown.          *)
(***************************************************************************)
COOLDOWN_MS == 1500

MaxClock == 3000
MaxScans == 3

\* The codes the camera decodes, and the time in ms from one decode to the next.
Codes == {P1, P2}
Delays == {1499, 1500}

\* Time passes.
Advance(d) ==
    /\ clock + d <= MaxClock
    /\ clock' = clock + d
    /\ UNCHANGED <<lastScannedCode, lastScannedTime, scanned>>
    /\ UNCHANGED <<query, answer, suggestVars, appVars, asyncVars, componentVars>>

\* The callback qrCode.start runs for a decoded text.
Decode(decodedText) ==
    /\ Len(scanned) < MaxScans
    /\ IF lastScannedCode = <<decodedText>> /\ clock - lastScannedTime < COOLDOWN_MS
       THEN UNCHANGED <<lastScannedCode, lastScannedTime, scanned>>
       ELSE /\ lastScannedCode' = <<decodedText>>
            /\ lastScannedTime' = clock
            /\ scanned' = Append(scanned, [code |-> decodedText, at |-> clock])
    /\ UNCHANGED <<clock, query, answer, suggestVars, appVars, asyncVars, componentVars>>

\* stopScannerOperation: the camera is stopped, to be started again.
stopScannerOperation ==
    /\ lastScannedCode # <<>>
    /\ lastScannedCode' = <<>>
    /\ UNCHANGED <<lastScannedTime, clock, scanned>>
    /\ UNCHANGED <<query, answer, suggestVars, appVars, asyncVars, componentVars>>

ScannerInit ==
    /\ AppInit
    /\ masterItems = {}
    /\ query = NoQuery
    /\ answer = NoAnswer
    /\ SuggestIdle
    /\ ScannerIdle
    /\ AsyncIdle
    /\ ComponentsIdle

ScannerNext ==
    \/ \E d \in Delays : Advance(d)
    \/ \E code \in Codes : Decode(code)
    \/ stopScannerOperation

ScannerSpec == ScannerInit /\ [][ScannerNext]_vars

(***************************************************************************)
(* The handlers that wait for a promise, taken in two steps: handleScan    *)
(* up to its await of db.findItem and from there on, handleMergeUpload up  *)
(* to its await of readFileAsText and from there on.  Other events run in  *)
(* between.                                                                *)
(***************************************************************************)
MaxPending == 2

Remove(seq, i) == SubSeq(seq, 1, i - 1) \o SubSeq(seq, i + 1, Len(seq))

\* handleScan up to `await db.findItem(partId)`: the duplicate check reads the
\* records of the render the callback belongs to.
scanStart(partId) ==
    LET existingRecord == FindRecord(records, partId)
    IN  /\ Tick
        /\ Dismissed
        /\ Len(lookups) < MaxPending
        /\ IF Trim(partId) = <<>>
           THEN UNCHANGED <<records, lastRecord, lastScanStatus, now, lookups>>
           ELSE IF existingRecord # <<>>
           THEN ScanDuplicate(existingRecord) /\ UNCHANGED lookups
           ELSE /\ lookups' = Append(lookups, [PartID |-> partId, scannedBy |-> currentUser])
                /\ UNCHANGED <<records, lastRecord, lastScanStatus, now>>
        /\ UNCHANGED <<users, currentUser, masterItems, importVars, reading>>
        /\ UNCHANGED <<query, answer, suggestVars, scannerVars, componentVars>>

\* handleScan after the await: the record is built and put at the head of
\* the log as it is by then.
scanFinish(i) ==
    LET partId == lookups[i].PartID
        masterItem == findItem(masterItems, partId)
        status == IF masterItem # <<>> THEN StOK ELSE StNotFound
    IN  \E t \in now..MaxTime :
          LET newRecord == NewScanRecord(generateId(UsedIds), t, status,
                                         lookups[i].scannedBy, partId, masterItem)
          IN  /\ now' = t
              /\ records' = Prepend(newRecord, records)
              /\ lastRecord' = <<newRecord>>
              /\ lastScanStatus' = status
              /\ lookups' = Remove(lookups, i)
              /\ UNCHANGED <<users, currentUser, masterItems, importVars, alert, opCount,
                             reading>>
              /\ UNCHANGED <<query, answer, suggestVars, scannerVars, componentVars>>

\* handleMergeUpload up to `await readFileAsText(file)`: the handler keeps the
\* records of the render it was created in.
mergeStart(k) ==
    /\ Tick
    /\ Dismissed
    /\ Len(reading) < MaxPending
    /\ reading' = Append(reading, [file |-> k, PartIDs |-> PartIDsOf(records)])
    /\ UNCHANGED <<recordVars, users, currentUser, masterItems, now, importVars, lookups>>
    /\ UNCHANGED <<query, answer, suggestVars, scannerVars, componentVars>>

\* handleMergeUpload after the await: the rows are checked against the
\* PartIDs of the records kept and appended to the log as it is by then.
mergeFinish(i) ==
    LET file == MergeFiles[reading[i].file]
    IN  /\ reading' = Remove(reading, i)
        /\ IF ~file.decodes
           THEN /\ alert' = Alert("mergeFailed", 0, 0)
                /\ UNCHANGED <<records, now>>
           ELSE \E t \in now..MaxTime :
                  /\ now' = t
                  /\ LET result == MergeRows(file.lines, StartIndex(file.lines) + 1,
                                             reading[i].PartIDs, UsedIds, t)
                     IN  /\ records' = records \o result.newRecords
                         /\ alert' = Alert("mergeDone", result.addedCount,
                                           result.skippedCount)
        /\ UNCHANGED <<lastRecord, lastScanStatus, users, currentUser, masterItems,
                       importVars, opCount, lookups>>
        /\ UNCHANGED <<query, answer, suggestVars, scannerVars, componentVars>>

AsyncNext ==
    \/ \E i \in 1..Len(ScanInputs) : scanStart(ScanInputs[i])
    \/ \E i \in 1..MaxPending : i <= Len(lookups) /\ scanFinish(i)
    \/ \E k \in 1..Len(MergeFiles) : mergeStart(k)
    \/ \E i \in 1..MaxPending : i <= Len(reading) /\ mergeFinish(i)

AsyncSpec == Init /\ [][AsyncNext]_vars

(***************************************************************************)
(* Scanned-records export: App.handleExportScanned, and the merge of the   *)
(* exported file into an application whose Record Log is empty.            *)
(***************************************************************************)
\* The header line handleExportScanned writes, without its line feed.
ExportColumns ==
    ExportHeader \o
    <<",", "V", "e", "n", "d", "o", "r", " ", "S", "/", "N", ",", "P", "r", "o", "j",
      "e", "c", "t", ",", "C", "l", "a", "s", "s", ",", "L", "o", "c", "a", "t", "i",
      "o", "n", ",", "S", "c", "a", "n", "S", "t", "a", "t", "u", "s", ",", "I", "n",
      "v", "S", "t", "a", "t", "u", "s", ",", "V", "e", "n", "d", "o", "r", ",", "V",
      "e", "n", "d", "o", "r", " ", "P", "/", "N", ",", "C", "u", "s", "t", "o", "m",
      "e", "r", " ", "P", "/", "N", ",", "D", "e", "s", "c", "r", "i", "p", "t", "i",
      "o", "n", ",", "U", "s", "e", "r">>

\* One row of the export: only the Description is quoted.
ExportRow(r) ==
    Join(<<toLocaleString(r.InventoryDate), r.PartID, r.VendorSN, r.Project, r.Class,
           r.Location, r.Status, Normal, r.Vendor, r.VendorPN, r.CustomerPN,
           <<"\"">> \o DoubleQuotes(r.Description) \o <<"\"">>,
           r.scannedBy>>, Comma)

RECURSIVE ExportRows(_)
ExportRows(recs) ==
    IF recs = <<>> THEN <<>>
    ELSE ExportRow(Head(recs)) \o LF \o ExportRows(Tail(recs))

\* csvContent: the marker, the header line and one line per record.
csvContent(recs) == BOM \o ExportColumns \o LF \o ExportRows(recs)

\* readFileAsText on a UTF-8 file: a leading byte-order marker is not part
\* of the text.
readFileAsText(content) ==
    IF StartsWith(content, BOM) THEN SubSeq(content, Len(BOM) + 1, Len(content))
    ELSE content

\* The Record Logs exported: one or two records with distinct PartIDs whose
\* fields are empty, plain, or hold a comma or a double quote.
WithComma == <<"a", ",", "b">>
WithQuote == <<"5", "\"">>
ExportRecord(id, partId, user, sn, pn, desc) ==
    [id |-> id, InventoryDate |-> 0, Status |-> IF pn = <<>> THEN StNotFound ELSE StOK,
     scannedBy |-> user, PartID |-> partId, VendorSN |-> sn, Project |-> <<>>,
     Class |-> <<>>, Location |-> <<>>, Vendor |-> <<>>, VendorPN |-> pn,
     CustomerPN |-> <<>>, Description |-> desc]

PlainRecords ==
    {ExportRecord(1, P1, Lynn, sn, pn, desc) :
       sn \in {<<>>, S1}, pn \in {<<>>, V123},
       desc \in {<<>>, WA, WithComma, WithQuote, WithQuote \o WithComma}}

RawRecords ==
    {ExportRecord(1, P1, Lynn, sn, pn, WA) :
       sn \in {S1, WithComma}, pn \in {V123, WithQuote}}

ExportLogs ==
    {<<>>} \cup {<<r>> : r \in PlainRecords \cup RawRecords}
      \cup {<<ExportRecord(2, P2, Kayra, <<>>, V123, WithComma), r>> :
              r \in PlainRecords \cup RawRecords}

\* The file is downloaded; nothing of the state of the application changes.
handleExportScanned ==
    /\ Tick
    /\ Dismissed
    /\ exported' = <<csvContent(records)>>
    /\ UNCHANGED <<recordVars, users, currentUser, masterItems, now, importVars, merged, backupFile, cameraVars,
                   relatedVars>>
    /\ UNCHANGED <<query, answer, suggestVars, scannerVars, asyncVars>>

\* handleMergeUpload, run with the exported file in the application whose
\* Record Log is merged.
mergeExported ==
    /\ exported # <<>>
    /\ Tick
    /\ \E t \in now..MaxTime :
         /\ now' = t
         /\ LET file == File(readFileAsText(exported[1]))
                result == MergeResult(file.lines, merged, IdsOf(merged), t)
            IN  /\ merged' = merged \o result.newRecords
                /\ alert' = Alert("mergeDone", result.addedCount, result.skippedCount)
    /\ UNCHANGED <<recordVars, users, currentUser, masterItems, importVars, exported, backupFile, cameraVars,
                   relatedVars>>
    /\ UNCHANGED <<query, answer, suggestVars, scannerVars, asyncVars>>

ExportInit ==
    /\ \E log \in ExportLogs : AppWith(log)
    /\ masterItems = {}
    /\ query = NoQuery
    /\ answer = NoAnswer
    /\ SuggestIdle
    /\ ScannerIdle
    /\ AsyncIdle
    /\ ComponentsIdle

ExportNext ==
    \/ handleExportScanned
    \/ mergeExported

ExportSpec == ExportInit /\ [][ExportNext]_vars

(***************************************************************************)
(* ScannerInput: the start and stop of the camera.  The file holds two     *)
(* versions of the component.  In the first the effect on isScanning runs  *)
(* startScannerOperation or a stop at once; in the second every operation  *)
(* is chained to taskQueue by queueTask.  An Html5Qrcode instance is       *)
(* NOT_STARTED, STARTING while the promise of start() is pending, or       *)
(* SCANNING: the camera session runs.  stop() ends the session of a        *)
(* SCANNING instance and throws for any other.                             *)
(***************************************************************************)
MaxRequests == 3

NOT_STARTED == "NOT_STARTED"
STARTING == "STARTING"
SCANNING == "SCANNING"

StartTask(id, pc) == [op |-> "start", id |-> id, pc |-> pc, qr |-> 0]
StopTask == [op |-> "stop", id |-> 0, pc |-> "queued", qr |-> 0]

\* The instances after `await html5QrCodeRef.current.stop()` in a try block.
Stopped(states, qr) ==
    IF qr # 0 /\ states[qr].state = SCANNING
    THEN [states EXCEPT ![qr].state = NOT_STARTED]
    ELSE states

CameraFrame ==
    /\ UNCHANGED <<appVars, masterItems, query, answer, suggestVars, scannerVars,
                   asyncVars, exportVars, backupFile, variant, relatedVars>>

\* setIsScanning(!isScanning) and the effect on [isScanning] that follows.
\* First version: a start bumps requestIdRef and runs startScannerOperation
\* up to its 100 ms wait; a stop runs at once and does not touch requestIdRef.
\* Second version: the cleanup of the previous effect queues a stop, then
\* requestIdRef is bumped and a start or a stop is queued.
toggleScanning ==
    /\ requestId < MaxRequests
    /\ isScanning' = ~isScanning
    /\ IF variant = 1
       THEN IF ~isScanning
            THEN /\ requestId' = requestId + 1
                 /\ tasks' = Append(tasks, StartTask(requestId + 1, "wait"))
                 /\ cameraError' = FALSE
                 /\ UNCHANGED <<qrRef, qrState>>
            ELSE /\ qrState' = Stopped(qrState, qrRef)
                 /\ UNCHANGED <<requestId, tasks, cameraError, qrRef>>
       ELSE /\ requestId' = requestId + 1
            /\ tasks' = tasks \o <<StopTask>>
                          \o <<IF ~isScanning THEN StartTask(requestId + 1, "queued")
                               ELSE StopTask>>
            /\ UNCHANGED <<qrRef, qrState, cameraError>>
    /\ CameraFrame

\* The retry button of the error screen.
handleRetry ==
    /\ isScanning /\ cameraError
    /\ requestId < MaxRequests
    /\ requestId' = requestId + 1
    /\ cameraError' = FALSE
    /\ tasks' = Append(tasks, StartTask(requestId + 1, IF variant = 1 THEN "wait" ELSE "queued"))
    /\ UNCHANGED <<isScanning, qrRef, qrState>>
    /\ CameraFrame

\* The operations that may take their next step: every one in the first
\* version, the head of the queue in the second.
Runnable(i) == i <= Len(tasks) /\ (variant = 1 \/ i = 1)

\* startScannerOperation from its start (second version) or from the end of
\* its 100 ms wait (first version) to the call of qrCode.start().
startScannerOperation(i) ==
    /\ Runnable(i)
    /\ tasks[i].op = "start" /\ tasks[i].pc \in {"wait", "queued"}
    /\ LET id == tasks[i].id
           regionShown == isScanning
           cleaned == Stopped(qrState, qrRef)
           qrCode == Len(qrState) + 1
           obsolete == id # requestId
       IN  IF variant = 1
           THEN IF ~regionShown
                THEN /\ tasks' = Remove(tasks, i)
                     /\ UNCHANGED <<qrRef, qrState>>
                ELSE /\ qrRef' = qrCode
                     /\ IF obsolete
                        THEN /\ qrState' = Append(cleaned, [state |-> NOT_STARTED, id |-> id])
                             /\ tasks' = Remove(tasks, i)
                        ELSE /\ qrState' = Append(cleaned, [state |-> STARTING, id |-> id])
                             /\ tasks' = [tasks EXCEPT ![i].pc = "starting", ![i].qr = qrCode]
           ELSE IF obsolete
                THEN /\ tasks' = Remove(tasks, i)
                     /\ UNCHANGED <<qrRef, qrState>>
                ELSE IF ~regionShown
                THEN /\ qrState' = cleaned
                     /\ tasks' = Remove(tasks, i)
                     /\ UNCHANGED qrRef
                ELSE /\ qrRef' = qrCode
                     /\ qrState' = Append(cleaned, [state |-> STARTING, id |-> id])
                     /\ tasks' = [tasks EXCEPT ![i].pc = "starting", ![i].qr = qrCode]
    /\ cameraError' = IF variant = 2 /\ tasks[i].id = requestId THEN FALSE ELSE cameraError
    /\ UNCHANGED <<isScanning, requestId>>
    /\ CameraFrame

\* The promise of qrCode.start() settles: the camera runs, or the start
\* failed and the error is shown if the request is still the current one.
startSettles(i, started) ==
    /\ Runnable(i)
    /\ tasks[i].pc = "starting"
    /\ qrState' = [qrState EXCEPT ![tasks[i].qr].state =
                                     IF started THEN SCANNING ELSE NOT_STARTED]
    /\ cameraError' = IF ~started /\ tasks[i].id = requestId THEN TRUE ELSE cameraError
    /\ tasks' = Remove(tasks, i)
    /\ UNCHANGED <<isScanning, requestId, qrRef>>
    /\ CameraFrame

\* stopScannerOperation of the second version, run from the queue.
stopQueued ==
    /\ variant = 2
    /\ tasks # <<>> /\ tasks[1].op = "stop"
    /\ qrState' = Stopped(qrState, qrRef)
    /\ qrRef' = 0
    /\ tasks' = Tail(tasks)
    /\ UNCHANGED <<isScanning, requestId, cameraError>>
    /\ CameraFrame

CameraInit ==
    /\ AppInit
    /\ masterItems = {}
    /\ query = NoQuery
    /\ answer = NoAnswer
    /\ SuggestIdle
    /\ ScannerIdle
    /\ AsyncIdle
    /\ ExportIdle
    /\ backupFile = <<>>
    /\ CameraIdle
    /\ variant \in {1, 2}
    /\ RelatedIdle

CameraNext ==
    \/ toggleScanning
    \/ handleRetry
    \/ \E i \in 1..(2 * MaxRequests) : startScannerOperation(i)
    \/ \E i \in 1..(2 * MaxRequests) : \E started \in BOOLEAN : startSettles(i, started)
    \/ stopQueued

CameraSpec == CameraInit /\ [][CameraNext]_vars

(***************************************************************************)
(* HistoryList: the effect on [lastRecord] that looks up the related items *)
(* of the last record.                                                     *)
(***************************************************************************)
MaxLookups == 3

\* The PartIDs scanned while the history view is shown.
RelatedScans == {P1, P4}

RelatedFrame ==
    /\ UNCHANGED <<appVars, masterItems, query, answer, suggestVars, scannerVars,
                   asyncVars, exportVars, backupFile, cameraVars>>

\* The effect runs after the render in which lastRecord changed: for a
\* defined lastRecord it sets relatedLoading and calls db.findRelatedItems.
relatedEffect ==
    /\ relatedDeps # lastRecord
    /\ relatedDeps' = lastRecord
    /\ IF lastRecord # <<>>
       THEN /\ relatedIssued < MaxLookups
            /\ relatedLoading' = TRUE
            /\ relatedIssued' = relatedIssued + 1
            /\ relatedPending' = relatedPending \cup
                 {[id |-> relatedIssued + 1,
                   record |-> [VendorPN |-> lastRecord[1].VendorPN,
                               Description |-> lastRecord[1].Description]]}
       ELSE UNCHANGED <<relatedLoading, relatedIssued, relatedPending>>
    /\ UNCHANGED relatedItems
    /\ RelatedFrame

\* The promise of a call resolves: the .then callback of the effect.
relatedResolves(q) ==
    /\ q \in relatedPending
    /\ relatedPending' = relatedPending \ {q}
    /\ relatedItems' = findRelatedItems(masterItems, q.record)
    /\ relatedLoading' = FALSE
    /\ UNCHANGED <<relatedDeps, relatedIssued>>
    /\ RelatedFrame

RelatedInit ==
    /\ AppInit
    /\ masterItems \in QueryCatalogs \ {{}}
    /\ query = NoQuery
    /\ answer = NoAnswer
    /\ SuggestIdle
    /\ ScannerIdle
    /\ AsyncIdle
    /\ ComponentsIdle

\* A handler runs once the effects of the last render have run.
RelatedNext ==
    \/ \E partId \in RelatedScans : relatedDeps = lastRecord /\ handleScan(partId)
    \/ \E k \in 1..MaxOps : k <= Len(records) /\ relatedDeps = lastRecord
                             /\ handleDeleteSingle(records[k].id)
    \/ relatedEffect
    \/ \E q \in relatedPending : relatedResolves(q)

RelatedSpec == RelatedInit /\ [][RelatedNext]_vars

(***************************************************************************)
(* Properties.                                                             *)
(***************************************************************************)
RecordsIn(recs) == {recs[k] : k \in 1..Len(recs)}

\* A scan of the identifier p that the Scan Processor does not ignore.
Scans(p) == handleScan(p) /\ Trim(p) # <<>>

\* C1: after any sequence of scan, merge, restore, setStatus, delete and
\* clear-all operations the Record Log holds at most one record per PartID.
C1_OneRecordPerPartID ==
    \A i, j \in 1..Len(records) : records[i].PartID = records[j].PartID => i = j

\* C2: scanning a PartID that already has a record reports Duplicated, shows
\* that existing record as the last record and leaves the Record Log exactly
\* as it was (size, order, Status and every other field of every record).
C2_DuplicateScan ==
    [][\A i \in 1..Len(ScanInputs) :
          LET p == ScanInputs[i]
          IN  (Scans(p) /\ p \in PartIDsOf(records))
                => /\ lastScanStatus' = StDuplicated
                   /\ records' = records
                   /\ Len(lastRecord') = 1
                   /\ lastRecord'[1].PartID = p
                   /\ lastRecord'[1] \in RecordsIn(records)]_vars

\* A duplicate scan has shown a record whose stored Status is Checked.
C2_Witness ==
    /\ lastScanStatus = StDuplicated
    /\ lastRecord # <<>>
    /\ lastRecord[1].Status = StChecked
    /\ lastRecord[1] \in RecordsIn(records)

\* C3: scanning a PartID p that has no record creates exactly one record for
\* p (log size + 1), signed by the selected operator: Status OK with the
\* catalog item's fields as snapshot when the Catalog Store holds p, Status
\* Not Found with every snapshot field empty when it does not.
C3_FirstScan ==
    [][\A i \in 1..Len(ScanInputs) :
          LET p == ScanInputs[i]
              held == {m \in masterItems : m.PartID = p}
          IN  (Scans(p) /\ p \notin PartIDsOf(records))
                => /\ Len(records') = Len(records) + 1
                   /\ Cardinality({k \in 1..Len(records') : records'[k].PartID = p}) = 1
                   /\ \A k \in 1..Len(records') :
                        records'[k].PartID = p =>
                          /\ records'[k].scannedBy = currentUser
                          /\ IF held # {}
                             THEN /\ records'[k].Status = StOK
                                  /\ \E m \in held :
                                       \A f \in SnapshotFields : records'[k][f] = m[f]
                             ELSE /\ records'[k].Status = StNotFound
                                  /\ \A f \in SnapshotFields : records'[k][f] = <<>>]_vars

\* The second operator has scanned a part the catalog holds: the record at
\* the head is OK and carries the catalog's description.
C3_Witness ==
    /\ lastScanStatus = StOK
    /\ records # <<>>
    /\ lastRecord = <<Head(records)>>
    /\ Head(records).scannedBy = Lynn
    /\ Head(records).Description = WB
    /\ Head(records).VendorPN = V123

\* C4: the Scan Processor trims the raw identifier before using it: blank
\* input changes nothing, and any other input is looked up and stored in
\* its trimmed form.
C4_ScanTrimsIdentifier ==
    [][\A i \in 1..Len(ScanInputs) :
          LET p == ScanInputs[i]
              key == Trim(p)
          IN  handleScan(p)
                => IF key = <<>>
                   THEN UNCHANGED <<records, lastRecord, lastScanStatus>>
                   ELSE IF key \in PartIDsOf(records)
                   THEN lastScanStatus' = StDuplicated /\ records' = records
                   ELSE /\ Len(records') = Len(records) + 1
                        /\ Head(records').PartID = key]_vars

MostRecentFirst(recs) ==
    \A i, j \in 1..Len(recs) : i < j => recs[i].InventoryDate >= recs[j].InventoryDate

CatalogChange ==
    \/ \E k \in 1..Len(CatalogFiles) : handleFileUpload(k)
    \/ UploadBatch
    \/ clearMaster

\* C6: a catalog ingestion or clear-master never changes a record already in
\* the Record Log: same records, each with the same snapshot fields and Status.
C6_SnapshotsKept ==
    [][CatalogChange
         => /\ Len(records') = Len(records)
            /\ \A k \in 1..Len(records) :
                 /\ records'[k].Status = records[k].Status
                 /\ records'[k].PartID = records[k].PartID
                 /\ \A f \in SnapshotFields : records'[k][f] = records[k][f]]_vars

\* A record scanned under the first catalog (description WA, no vendor part
\* number) is still there after the catalog was replaced by one that
\* describes the part as WB.
C6_Witness ==
    /\ \E k \in 1..Len(records) :
         /\ records[k].PartID = P1 /\ records[k].Status = StOK
         /\ records[k].Description = WA /\ records[k].VendorPN = <<>>
         /\ records[k].InventoryDate <= MaxTime /\ records[k].id < 8
    /\ \E m \in masterItems : m.PartID = P1 /\ m.Description = WB

RecordLogOp ==
    \/ \E i \in 1..Len(ScanInputs) : handleScan(ScanInputs[i])
    \/ \E ids \in SUBSET IdsOf(records) : handleBatchDelete(ids)
    \/ \E ids \in SUBSET IdsOf(records) : handleBatchCheck(ids)
    \/ \E id \in IdsOf(records) : handleDeleteSingle(id)
    \/ clearRecords
    \/ \E k \in 1..Len(MergeFiles) : handleMergeUpload(MergeFiles[k])
    \/ handleBackupSystem
    \/ \E k \in 1..Len(Snapshots) : handleRestoreSystem(Snapshots[k])

\* C7: scan, setStatus, delete, clear-all, merge, backup and restore leave
\* the Catalog Store unchanged.
C7_CatalogUntouched == [][RecordLogOp => masterItems' = masterItems]_vars

\* A restore has replaced the log while the catalog holds items.
C7_Witness ==
    /\ masterItems # {}
    /\ alert.msg = "restoreDone"
    /\ records # <<>>

\* The data rows of a record CSV: the non-blank lines after the header, each
\* tokenized.
DataRows(text) ==
    LET lines == SplitLines(text)
        header == IF StartsWith(lines[1], BOM) \/ Includes(lines[1], HeaderMark)
                  THEN 1 ELSE 0
        body == SubSeq(lines, header + 1, Len(lines))
        kept == SelectSeq(body, LAMBDA l : Trim(l) # <<>>)
    IN  [k \in 1..Len(kept) |-> splitCSV(Trim(kept[k]))]

MergeData == [f \in 1..Len(MergeFiles) |-> DataRows(MergeFiles[f].text)]

RowPartID(row) == Col(row, 1)

RowDate(row, t) ==
    IF DateParse(Col(row, 0)) # NaN THEN DateParse(Col(row, 0)) ELSE t

\* The rows merge accepts: PartID not empty, not in the log, not carried by
\* an earlier row of the file.
AcceptedRows(rows, recs) ==
    SelectSeq([k \in 1..Len(rows) |-> k],
              LAMBDA k : /\ RowPartID(rows[k]) # <<>>
                         /\ RowPartID(rows[k]) \notin PartIDsOf(recs)
                         /\ \A j \in 1..(k - 1) : RowPartID(rows[j]) # RowPartID(rows[k]))

Merges(file) == handleMergeUpload(file) /\ file.decodes

\* C8 as stated: every data row is handled independently of the others: a
\* row whose PartID is in the Record Log is skipped and counted, a row whose
\* PartID is not in the Record Log adds exactly one record with that PartID
\* and the parsed date; the log grows by the added count and added + skipped
\* is the number of data rows.
C8_RowsIndependent ==
    [][\A f \in 1..Len(MergeFiles) :
          LET rows == MergeData[f]
              present == {k \in 1..Len(rows) : RowPartID(rows[k]) \in PartIDsOf(records)}
              absent == {k \in 1..Len(rows) : RowPartID(rows[k]) \notin PartIDsOf(records)}
          IN  Merges(MergeFiles[f])
                => /\ alert'.b = Cardinality(present)
                   /\ alert'.a = Cardinality(absent)
                   /\ Len(records') = Len(records) + alert'.a
                   /\ alert'.a + alert'.b = Len(rows)
                   /\ \A k \in absent :
                        Cardinality({n \in (Len(records) + 1)..Len(records') :
                                       records'[n].PartID = RowPartID(rows[k])}) = 1]_vars

\* C8, amended: merge accepts a data row when its PartID is not empty, not in
\* the Record Log and not carried by an earlier row of the same file; every
\* accepted row appends exactly one record with that PartID and the parsed
\* date (the current time when the date does not parse), every other data
\* row is skipped and counted; the log grows by the added count and added +
\* skipped is the number of data rows.
C8_MergeRows ==
    [][\A f \in 1..Len(MergeFiles) :
          LET rows == MergeData[f]
              acc == AcceptedRows(rows, records)
          IN  Merges(MergeFiles[f])
                => /\ alert'.msg = "mergeDone"
                   /\ alert'.a = Len(acc)
                   /\ alert'.b = Len(rows) - Len(acc)
                   /\ Len(records') = Len(records) + alert'.a
                   /\ SubSeq(records', 1, Len(records)) = records
                   /\ \A n \in 1..Len(acc) :
                        /\ records'[Len(records) + n].PartID = RowPartID(rows[acc[n]])
                        /\ records'[Len(records) + n].InventoryDate
                             = RowDate(rows[acc[n]], now')]_vars

\* A merge has added one record with a parsed date and skipped one row, to a
\* log that held a record before.
C8_Witness ==
    /\ alert.msg = "mergeDone"
    /\ alert.a = 1
    /\ alert.b = 1
    /\ Len(records) = 2
    /\ records[2].InventoryDate = DateParse(Date1)

\* C9: restore with a snapshot that has a records list replaces the whole
\* Record Log by that list, replaces the user list when the snapshot has a
\* users list, and leaves the Catalog Store and its count unchanged.
C9_RestoreReplaces ==
    [][\A k \in 1..Len(Snapshots) :
          LET data == Snapshots[k]
          IN  (handleRestoreSystem(data) /\ data.kind = "obj" /\ data.records.t = "list")
                => /\ records' = data.records.v
                   /\ (data.users.t = "list" => users' = data.users.v)
                   /\ masterItems' = masterItems
                   /\ Cardinality(masterItems') = Cardinality(masterItems)]_vars

\* One upload, one scan and then a restore of a snapshot with an empty
\* records list: the log that held the scanned record is empty, the users
\* are the snapshot's, the catalog is still loaded.
C9_Witness ==
    /\ alert.msg = "restoreDone"
    /\ opCount = 3
    /\ lastRecord # <<>>
    /\ records = <<>>
    /\ users = <<Lynn>>
    /\ masterItems # {}

Malformed(data) ==
    \/ data.kind \in {"throw", "null", "prim"}
    \/ data.users.t = "other"
    \/ data.records.t = "other"

\* C10: restore of a malformed snapshot (unparseable, not an object, or with
\* a users or records field that is present but not a list) changes neither
\* the user list nor the Record Log.
C10_MalformedRestoreAborts ==
    [][\A k \in 1..Len(Snapshots) :
          (handleRestoreSystem(Snapshots[k]) /\ Malformed(Snapshots[k]))
            => UNCHANGED <<users, records>>]_vars

\* The valid rows of a catalog file: the lines after the first that are not
\* blank, tokenized, whose field 0 is not empty.
CatalogRows(text) ==
    LET lines == SplitLines(text)
        body == SubSeq(lines, 2, Len(lines))
        kept == SelectSeq(body, LAMBDA l : Trim(l) # <<>>)
        rows == [k \in 1..Len(kept) |-> splitCSV(Trim(kept[k]))]
    IN  SelectSeq(rows, LAMBDA r : Col(r, 0) # <<>>)

CatalogData == [f \in 1..Len(CatalogFiles) |-> CatalogRows(CatalogFiles[f].text)]

\* The item a row stands for: fields 0..7 in order, the fields from index 8
\* onward joined by commas.
RowItem(row) ==
    [PartID |-> Col(row, 0), VendorSN |-> Col(row, 1), Project |-> Col(row, 2),
     Class |-> Col(row, 3), Location |-> Col(row, 4), Vendor |-> Col(row, 5),
     VendorPN |-> Col(row, 6), CustomerPN |-> Col(row, 7),
     Description |-> Join(SubSeq(row, 9, Len(row)), Comma)]

\* The step that ends the ingestion of file f with its last batch written.
Completes(f) == upload = f /\ UploadBatch /\ ~importing'

\* The step that starts the ingestion of the decodable file f.
Starts(f) == handleFileUpload(f) /\ CatalogFiles[f].decodes

StoredIds(table) == {m.PartID : m \in table}

\* The items of all the chunks, in their order.
RECURSIVE Flat(_)
Flat(chs) == IF chs = <<>> THEN <<>> ELSE Head(chs) \o Flat(Tail(chs))

\* The last item of a chunk that carries PartID p.
LastOf(chunk, p) ==
    chunk[CHOOSE i \in 1..Len(chunk) :
            /\ chunk[i].PartID = p
            /\ \A j \in (i + 1)..Len(chunk) : chunk[j].PartID # p]

\* For every file, the items of the chunks handleFileUpload builds from it.
Built ==
    [f \in 1..Len(CatalogFiles) |->
       IF CatalogFiles[f].decodes THEN Flat(CatalogFiles[f].chunks) ELSE <<>>]

\* The chunks built for file f hold the valid rows of the file, one item a
\* row, in file order.
ValidRowsBuilt ==
    [f \in 1..Len(CatalogFiles) |->
       /\ Len(Built[f]) = Len(CatalogData[f])
       /\ \A k \in 1..Len(Built[f]) : Built[f][k] = RowItem(CatalogData[f][k])]

\* The import of file f starts with the chunks built for it: the items
\* handed to the store are the valid rows of the file, in file order.
LoadsValidRows(f) == Flat(chunks') = Built[f] /\ ValidRowsBuilt[f]

\* C11: the Catalog Store holds at most one MasterItem per PartID, and when
\* a PartID is written again the stored item equals the latest row in every
\* field, nothing of the earlier entry is kept.
C11_UpsertByPartID ==
    /\ [](\A a, b \in masterItems : a.PartID = b.PartID => a = b)
    /\ [][\A f \in 1..Len(CatalogFiles) : Starts(f) => LoadsValidRows(f)]_vars
    /\ [][UploadBatch
            => LET chunk == chunks[chunkIdx + 1]
               IN  \A p \in PartIDsOf(chunk) :
                     {m \in masterItems' : m.PartID = p} = {LastOf(chunk, p)}]_vars

\* Two rows were written for P1 and one item is stored: the second row, with
\* the empty VendorSN of that row.
C11_Witness ==
    /\ statusMsg = "done"
    /\ processed = 2
    /\ Cardinality(masterItems) = 1
    /\ \E m \in masterItems : m.PartID = P1 /\ m.Description = WA /\ m.VendorSN = <<>>

\* C12: ingestion is a full replace: the store is cleared when the ingestion
\* starts, before any batch, and when the ingestion completes the PartIDs in
\* the store are exactly the PartIDs of the valid rows of the file.
C12_FullReplace ==
    [][\A f \in 1..Len(CatalogFiles) :
          /\ Starts(f) => /\ masterItems' = {}
                          /\ (CatalogData[f] = <<>> => ~importing' /\ statusMsg' = "done")
          /\ Completes(f)
               => StoredIds(masterItems')
                    = {Col(CatalogData[f][k], 0) : k \in 1..Len(CatalogData[f])}]_vars

\* C13: blank lines and rows with an empty field 0 are skipped without
\* aborting: every valid row of the file is loaded and the processed count
\* is the number of valid rows.
C13_InvalidRowsSkipped ==
    [][\A f \in 1..Len(CatalogFiles) :
          /\ Starts(f)
               => /\ statusMsg' # "failed"
                  /\ Flat(chunks') = Built[f]
                  /\ Len(Built[f]) = Len(CatalogData[f])
                  /\ PartIDsOf(Built[f]) = {Col(CatalogData[f][k], 0) : k \in 1..Len(CatalogData[f])}
                  /\ <<>> \notin PartIDsOf(Built[f])
          /\ Completes(f)
               => /\ processed' = Len(CatalogData[f])
                  /\ statusMsg' = "done"
                  /\ <<>> \notin StoredIds(masterItems')]_vars

\* The file with a blank line and a row without PartID between its two
\* valid rows has been loaded: both rows are stored, two rows were counted.
C13_Witness ==
    /\ statusMsg = "done"
    /\ processed = 2
    /\ StoredIds(masterItems) = {P1, P2}

RowFieldsBuilt ==
    [f \in 1..Len(CatalogFiles) |->
       /\ Len(Built[f]) = Len(CatalogData[f])
       /\ \A k \in 1..Len(Built[f]) :
            LET row == CatalogData[f][k]
                item == Built[f][k]
            IN  /\ item.PartID = Col(row, 0)
                /\ item.VendorSN = Col(row, 1)
                /\ item.Project = Col(row, 2)
                /\ item.Class = Col(row, 3)
                /\ item.Location = Col(row, 4)
                /\ item.Vendor = Col(row, 5)
                /\ item.VendorPN = Col(row, 6)
                /\ item.CustomerPN = Col(row, 7)
                /\ item.Description = Join(SubSeq(row, 9, Len(row)), Comma)]

C15_DecodeFailureKeepsCatalog ==
    [][\A f \in 1..Len(CatalogFiles) :
          (handleFileUpload(f) /\ ~CatalogFiles[f].decodes)
            => /\ masterItems' = masterItems
               /\ statusMsg' = "failed"
               /\ ~importing'
               /\ upload' = 0 /\ chunks' = <<>>]_vars

\* A failed ingestion with the earlier catalog still loaded.
C15_Witness ==
    /\ statusMsg = "failed"
    /\ ~importing
    /\ StoredIds(masterItems) = {P1, P2}

\* The commas of a line outside quoted spans: an even number of quotes
\* stands before them.
OutsideCommas(text) ==
    {k \in 1..Len(text) :
       /\ text[k] = ","
       /\ Cardinality({j \in 1..(k - 1) : text[j] = "\""}) % 2 = 0}

\* The n-th position of cuts, counted from the left.
NthCut(cuts, n) == CHOOSE c \in cuts : Cardinality({d \in cuts : d < c}) = n - 1

\* The n-th piece of the line cut at the positions cuts.
Piece(text, cuts, n) ==
    SubSeq(text,
           IF n = 1 THEN 1 ELSE NthCut(cuts, n - 1) + 1,
           IF n = Cardinality(cuts) + 1 THEN Len(text) ELSE NthCut(cuts, n) - 1)

\* The field of a piece: trimmed, and when it then begins and ends with a
\* quote, without these two quotes and with each doubled quote made one.
FieldOf(piece) ==
    LET t == Trim(piece)
    IN  IF Len(t) >= 1 /\ t[1] = "\"" /\ t[Len(t)] = "\""
        THEN CollapseQuotes(SubSeq(t, 2, Len(t) - 1))
        ELSE t

\* C16: the tokenizer cuts the line at the commas outside quoted spans and
\* nowhere else, so it returns one field more than there are such commas,
\* the last one included even when empty; each field is the piece trimmed,
\* unquoted and with doubled quotes collapsed; a,"b,c",d gives [a, b,c, d]
\* and a,"b""c",d gives [a, b"c, d].  The field-wise form of the tokenizer
\* that reads the files returns the same fields.
C16_Tokenizer ==
    (answer.done /\ query.fn = "splitCSV")
      => LET text == query.text
             cuts == OutsideCommas(text)
         IN  /\ Len(answer.list) = Cardinality(cuts) + 1
             /\ \A n \in 1..Len(answer.list) :
                  answer.list[n] = FieldOf(Piece(text, cuts, n))
             /\ text = Line1 => answer.list = <<<<"a">>, <<"b", ",", "c">>, <<"d">>>>
             /\ text = Line2 => answer.list = <<<<"a">>, <<"b", "\"", "c">>, <<"d">>>>
             /\ splitCSV(text) = answer.list

\* The second example has been tokenized.
C16_Witness ==
    /\ answer.done
    /\ query.text = Line2
    /\ answer.list = <<<<"a">>, <<"b", "\"", "c">>, <<"d">>>>

Relates == answer.done /\ query.fn = "findRelatedItems"

\* The catalog items whose VendorPN is exactly the record's.
SameVendorPN == {m \in masterItems : m.VendorPN = query.record.VendorPN}

\* The VendorPN step gives a result: the VendorPN is not empty, not "NA",
\* longer than 2 characters, and some catalog item carries it.
VendorPNWins ==
    /\ query.record.VendorPN # <<>>
    /\ query.record.VendorPN # NA
    /\ Len(query.record.VendorPN) > 2
    /\ SameVendorPN # {}

Related(version, table, record) ==
    IF version = 1 THEN findRelatedItems(table, record)
    ELSE findRelatedItemsV2(table, record)

\* C17: when the record's VendorPN is not empty, not "NA", longer than 2
\* characters and carried by some catalog item, findRelatedItems returns
\* exactly the catalog items with that VendorPN; a VendorPN that is empty,
\* "NA" or of length 2 or less is not used: the result is the one for the
\* same record without VendorPN.
C17_VendorPNMatch ==
    Relates
      => LET pn == query.record.VendorPN
         IN  /\ VendorPNWins => answer.set = SameVendorPN
             /\ (pn = <<>> \/ pn = NA \/ Len(pn) <= 2)
                  => answer.set = Related(query.version, masterItems,
                                          [query.record EXCEPT !.VendorPN = <<>>])

\* VendorPN V123 is on two catalog items; the record's description alone
\* would have matched other items.
C17_Witness ==
    /\ Relates
    /\ query.version = 1
    /\ query.record = [VendorPN |-> V123, Description |-> WidRecord]
    /\ answer.set = {Item(P1, V123, WA), Item(P2, V123, WidItem)}

\* The catalog items whose lower-cased Description contains the key of the
\* record's Description.
SameDescription ==
    {m \in masterItems :
       Includes(toLowerCase(m.Description), SearchKey(query.record.Description))}

DescriptionUsable == query.record.Description # <<>> /\ query.record.Description # NA

Searches == answer.done /\ query.fn = "searchMasterItems"

\* The catalog items that contain the term, case ignored, in PartID or VendorPN.
TermMatches ==
    {m \in masterItems :
       \/ Includes(toLowerCase(m.PartID), toLowerCase(query.text))
       \/ Includes(toLowerCase(m.VendorPN), toLowerCase(query.text))}

\* C19: a term shorter than 2 characters gives no result; otherwise the
\* result holds at most 5 catalog items, each containing the term (case
\* ignored) in its PartID or VendorPN, and fewer than 5 only when fewer
\* than 5 catalog items match.
C19_Autocomplete ==
    Searches
      => IF Len(query.text) < 2 THEN answer.list = <<>>
         ELSE /\ Len(answer.list) <= 5
              /\ \A i \in 1..Len(answer.list) : answer.list[i] \in TermMatches
              /\ \A i, j \in 1..Len(answer.list) :
                   answer.list[i] = answer.list[j] => i = j
              /\ Len(answer.list) < 5 => Len(answer.list) = Cardinality(TermMatches)

\* Six catalog items match the term, five are returned.
C19_Witness ==
    /\ Searches
    /\ Cardinality(TermMatches) = 6
    /\ Len(answer.list) = 5
    /\ query.text = <<"v", "1", "2">>

\* C20: after any sequence of scan, setStatus, merge and restore operations
\* every record of the Record Log has a Status that is one of OK, Not Found,
\* Duplicated, Checked.
C20_StatusInScanStatus ==
    \A k \in 1..Len(records) : records[k].Status \in ScanStatus

\* C21: while a catalog ingestion is in progress, also between two of its
\* batches, no scan, merge, restore, clear-master or second ingestion begins.
C21_Serialized ==
    [][importing
         => ~ \/ \E i \in 1..Len(ScanInputs) : handleScan(ScanInputs[i])
              \/ \E k \in 1..Len(MergeFiles) : handleMergeUpload(MergeFiles[k])
              \/ \E k \in 1..Len(Snapshots) : handleRestoreSystem(Snapshots[k])
              \/ clearMaster
              \/ \E k \in 1..Len(CatalogFiles) : handleFileUpload(k)]_vars

\* C22: the result of an older query is never applied to the suggestion
\* list after a newer input was handled: once the timer has fired and all
\* pending queries have resolved, the suggestions shown are those of the
\* latest input.
C22_LatestSuggestions ==
    (~timer /\ pending = {})
      => suggestions = IF Len(manualInput) < 2 THEN <<>>
                       ELSE searchMasterItems(masterItems, manualInput)

\* The time of the last call of onScan with the code, -1 when there is none.
LastScanOf(code) ==
    LET hits == {i \in 1..Len(scanned) : scanned[i].code = code}
    IN  IF hits = {} THEN -1
        ELSE scanned[CHOOSE i \in hits : \A j \in hits : j <= i].at

\* C23: the same identifier is never passed to the Scan Processor twice less
\* than 1500 ms apart, and a decode of an identifier that was not passed in
\* the last 1500 ms is passed.
C23_Cooldown ==
    /\ [](\A i, j \in 1..Len(scanned) :
            (i < j /\ scanned[i].code = scanned[j].code)
              => scanned[j].at - scanned[i].at >= COOLDOWN_MS)
    /\ [][\A code \in Codes :
            (Decode(code)
               /\ (LastScanOf(code) = -1 \/ clock - LastScanOf(code) >= COOLDOWN_MS))
              => scanned' = Append(scanned, [code |-> code, at |-> clock])]_vars

\* C24: a started ingestion eventually ends; until then it goes on with the
\* same file, and it ends either failed or done after its last batch, the
\* importing flag cleared.
C24_ImportEnds ==
    /\ importing ~> ~importing
    /\ [][importing =>
            \/ importing' /\ upload' = upload /\ chunkIdx' >= chunkIdx
            \/ ~importing' /\ statusMsg' = "failed" /\ UploadBatchFails
            \/ /\ ~importing' /\ statusMsg' = "done"
               /\ chunkIdx + 1 = Len(chunks) /\ UploadBatch]_vars

C24_Witness ==
    ~importing /\ statusMsg = "done" /\ processed = CHUNK_SIZE + 1

Unselected(ids) == {k \in 1..Len(records) : records[k].id \notin ids}
RankIn(ids, k) == Cardinality({j \in Unselected(ids) : j <= k})

\* C26: marking the selected records changes the Status of the selected
\* records and nothing else, and keeps the number of records; deleting the
\* selected records removes the records whose id is selected and no other;
\* the records not selected keep their fields and their order, and no record
\* is created.
C26_SelectedOnly ==
    /\ [][\A ids \in SUBSET IdsOf(records) :
            handleBatchCheck(ids) =>
              /\ Len(records') = Len(records)
              /\ \A k \in 1..Len(records) :
                   /\ DOMAIN records'[k] = DOMAIN records[k]
                   /\ \A f \in DOMAIN records[k] \ {"Status"} :
                        records'[k][f] = records[k][f]
                   /\ records'[k].Status =
                        (IF records[k].id \in ids THEN StChecked
                         ELSE records[k].Status)]_vars
    /\ [][\A ids \in SUBSET IdsOf(records) :
            (handleBatchDelete(ids)
               \/ (\E id \in ids : ids = {id} /\ handleDeleteSingle(id))) =>
              /\ Len(records') = Cardinality(Unselected(ids))
              /\ \A k \in Unselected(ids) : records'[RankIn(ids, k)] = records[k]
              /\ \A j \in 1..Len(records') : records'[j].id \notin ids]_vars

C26_Witness ==
    /\ \E i, j \in 1..Len(records) :
          /\ records[i].scannedBy = Kayra /\ records[i].Status = StChecked
          /\ records[j].Status # StChecked

\* For every file, whether the chunks built from it are the valid rows cut
\* into batches of CHUNK_SIZE: as many batches as the ceiling of the number
\* of valid rows over CHUNK_SIZE, none empty, all full but the last, and the
\* i-th batch holding the rows from (i - 1) * CHUNK_SIZE + 1 on.
BatchesBuilt ==
    [f \in 1..Len(CatalogFiles) |->
       LET chs == CatalogFiles[f].chunks
           n == Len(CatalogData[f])
       IN  /\ Len(chs) = (n + CHUNK_SIZE - 1) \div CHUNK_SIZE
           /\ \A i \in 1..Len(chs) :
                /\ Len(chs[i]) >= 1
                /\ Len(chs[i]) <= CHUNK_SIZE
                /\ i < Len(chs) => Len(chs[i]) = CHUNK_SIZE
                /\ \A j \in 1..Len(chs[i]) :
                     chs[i][j] = RowItem(CatalogData[f][(i - 1) * CHUNK_SIZE + j])]

\* C27: the valid rows are written in file order in batches of 1000: the
\* batches of an ingestion are the ceiling of (valid rows / 1000) many, each
\* non-empty and of at most 1000 rows, all but the last of exactly 1000;
\* each turn of the loop writes the next of them; a file with no valid row
\* writes no batch and leaves the store cleared.
C27_Batches ==
    /\ [][\A f \in 1..Len(CatalogFiles) :
            Starts(f) =>
              /\ chunks' = CatalogFiles[f].chunks
              /\ BatchesBuilt[f]
              /\ CatalogData[f] = <<>> =>
                   (~importing' /\ chunks' = <<>> /\ masterItems' = {})
              /\ CatalogData[f] # <<>> => (importing' /\ chunkIdx' = 0)]_vars
    /\ [][UploadBatch =>
            LET batch == chunks[chunkIdx + 1]
            IN  /\ processed' - processed = Len(batch)
                /\ Len(batch) \in 1..CHUNK_SIZE
                /\ PartIDsOf(batch) \subseteq StoredIds(masterItems')
                /\ importing' => (chunkIdx' = chunkIdx + 1 /\ chunks' = chunks)
                /\ ~importing' <=> chunkIdx + 1 = Len(chunks)]_vars

\* The first batch of the file of CHUNK_SIZE + 1 rows is written, the second,
\* of one row, is to come.
C27_Witness ==
    /\ importing /\ chunkIdx = 1
    /\ Len(chunks) = 2
    /\ Len(chunks[1]) = CHUNK_SIZE /\ Len(chunks[2]) = 1

MaxChunks == 7

\* p is 100 * completed / total rounded to an integer, a half rounded up.
Rounded(p, completed, total) ==
    /\ 2 * p * total - total <= 200 * completed
    /\ 200 * completed < 2 * p * total + total

\* C28: the progress stays within 0..100 and never decreases during an
\* ingestion; it is 0 when an ingestion starts; after each batch it is
\* (batches completed / total batches) * 100 rounded to an integer, and 100
\* after the last batch.  The rounding is checked for every number of batches
\* up to MaxChunks as well as on the batches of the files.
C28_Progress ==
    /\ [](progress \in 0..100)
    /\ [](\A total \in 1..MaxChunks : \A completed \in 1..total :
            /\ Rounded(Pct(completed, total), completed, total)
            /\ Pct(completed, total) \in 0..100
            /\ Pct(completed, total) >= Pct(completed - 1, total)
            /\ Pct(total, total) = 100)
    /\ [][importing => progress' >= progress]_vars
    /\ [][\A f \in 1..Len(CatalogFiles) : handleFileUpload(f) => progress' = 0]_vars
    /\ [][UploadBatch =>
            /\ Rounded(progress', chunkIdx + 1, Len(chunks))
            /\ chunkIdx + 1 = Len(chunks) => (progress' = 100 /\ ~importing')]_vars

\* Half of the batches of an ingestion are written.
C28_Witness == importing /\ chunkIdx = 1 /\ progress = 50 /\ Len(chunks) = 2

\* The files that hold the rows Rows1 under a header line, written with one
\* of the three line terminators.
NewlineFiles ==
    {f \in 1..Len(CatalogFiles) :
       \E newline \in {LF, CRLF, CR} : CatalogFiles[f].text = CatalogText(Rows1, newline)}

\* C29: the same rows written with LF, with CR LF or with CR alone are
\* ingested into the same catalog, only the first line skipped as the header:
\* whichever terminator the file uses, the items handed to the store are the
\* items of the rows.
C29_AnyNewline ==
    [][\A f \in NewlineFiles :
          Starts(f) =>
            /\ Len(Built[f]) = Len(Rows1)
            /\ \A k \in 1..Len(Rows1) : Built[f][k] = RowItem(splitCSV(Rows1[k]))
            /\ Flat(chunks') = Built[f]]_vars

\* C30: when the write of a batch fails the ingestion ends failed, the store
\* holds exactly the rows of the batches written before it, none of the
\* previous catalog, and no later batch is written.
C30_FailureKeepsEarlierBatches ==
    [][UploadBatchFails =>
         /\ statusMsg' = "failed"
         /\ ~importing'
         /\ masterItems' = bulkAdd({}, Flat(SubSeq(chunks, 1, chunkIdx)))
         /\ chunks' = <<>>]_vars

\* C31: when scans of the same PartID overlap, or a scan completes while a
\* merge is reading its file, the Record Log ends with one record for the
\* PartID: once no handler is waiting, no two records share a PartID.
C31_AsyncOneRecordPerPartID ==
    (lookups = <<>> /\ reading = <<>>)
      => \A i, j \in 1..Len(records) :
           records[i].PartID = records[j].PartID => i = j

\* The PartIDs all of whose records are among the records with the ids given.
FreedBy(ids) ==
    {p \in PartIDsOf(records) :
       \A k \in 1..Len(records) : records[k].PartID = p => records[k].id \in ids}

\* C32: removal frees the PartID.  A delete leaves no record for a PartID
\* whose records were all selected, clear-all leaves no record and resets
\* the last record and the last scan status to idle, a restore leaves the
\* PartIDs of its snapshot only; and a scan of a PartID that has no record
\* in the log is classified OK or Not Found, never Duplicated, and puts a
\* new record for it at the head of the log.
C32_RemovalFreesPartID ==
    /\ [][\A ids \in SUBSET IdsOf(records) :
            (handleBatchDelete(ids)
               \/ (\E id \in ids : ids = {id} /\ handleDeleteSingle(id)))
              => FreedBy(ids) \cap PartIDsOf(records') = {}]_vars
    /\ [][clearRecords =>
            /\ records' = <<>>
            /\ lastRecord' = <<>>
            /\ lastScanStatus' = StIdle]_vars
    /\ [][\A k \in 1..Len(Snapshots) :
            LET data == Snapshots[k]
            IN  (handleRestoreSystem(data) /\ data.kind = "obj" /\ data.records.t = "list")
                  => PartIDsOf(records') = PartIDsOf(data.records.v)]_vars
    /\ [][\A i \in 1..Len(ScanInputs) :
            LET partId == ScanInputs[i]
            IN  (handleScan(partId) /\ Trim(partId) # <<>>
                   /\ partId \notin PartIDsOf(records))
                  => /\ lastScanStatus' \in {StOK, StNotFound}
                     /\ Len(records') = Len(records) + 1
                     /\ SubSeq(records', 2, Len(records')) = records
                     /\ records'[1].PartID = partId
                     /\ records'[1].Status = lastScanStatus'
                     /\ records'[1].id \notin IdsOf(records)
                     /\ lastRecord' = <<records'[1]>>]_vars

\* P1 was scanned, its record deleted from the list, and P1 scanned again:
\* the log holds the one record of the second scan.
C32_Witness ==
    /\ opCount = 3
    /\ Len(records) = 1
    /\ records[1].PartID = P1 /\ records[1].id = 2
    /\ lastRecord = <<records[1]>>
    /\ lastScanStatus \in {StOK, StNotFound}

\* The fields a merged record shares with the record it was exported from.
SameFields(a, b) ==
    /\ a.PartID = b.PartID /\ a.Status = b.Status /\ a.scannedBy = b.scannedBy
    /\ a.VendorSN = b.VendorSN /\ a.Project = b.Project /\ a.Class = b.Class
    /\ a.Location = b.Location /\ a.Vendor = b.Vendor /\ a.VendorPN = b.VendorPN
    /\ a.CustomerPN = b.CustomerPN /\ a.Description = b.Description

\* C33: export followed by merge is a round trip.  Once the exported file
\* has been merged into the empty Record Log, that log has one record per
\* exported record, in the order of the export, and each has the PartID,
\* Status, scannedBy, VendorSN, Project, Class, Location, Vendor, VendorPN,
\* CustomerPN and Description of the record exported, also when a field
\* holds a comma or a double quote.
C33_ExportMergeRoundTrip ==
    (exported # <<>> /\ alert.msg = "mergeDone" /\ exported[1] = csvContent(records))
      => /\ Len(merged) = Len(records)
         /\ \A k \in 1..Len(records) : SameFields(merged[k], records[k])

\* C34: backup followed by restore is the identity.  Restoring the snapshot
\* downloaded last while the Record Log and the user list are as they were
\* when it was taken leaves the records, their fields, their order and the
\* user list as they are; and a snapshot has the fields version, timestamp,
\* users, records and masterCount only, masterCount being the number of
\* rows the catalog had when the snapshot was taken.
C34_BackupRestoreIdentity ==
    /\ [][(restoreBackup
             /\ JsonParse(backupFile[1]).records = records
             /\ JsonParse(backupFile[1]).users = users)
            => /\ records' = records
               /\ users' = users
               /\ alert' = Alert("restoreDone", Len(records), 0)]_vars
    /\ [][handleBackupSystem
            => /\ DOMAIN JsonParse(backupFile'[1])
                   = {"version", "timestamp", "users", "records", "masterCount"}
               /\ JsonParse(backupFile'[1]).masterCount = Cardinality(masterItems)
               /\ JsonParse(backupFile'[1]).records = records
               /\ JsonParse(backupFile'[1]).users = users]_vars

\* A record was scanned, the backup taken and restored at once.
C34_Witness ==
    /\ opCount = 3
    /\ backupFile # <<>>
    /\ alert = Alert("restoreDone", 1, 0)
    /\ Len(records) = 1 /\ records[1].id = 1
    /\ JsonParse(backupFile[1]).records = records

\* C35: the last record shown to the operator, when defined, has the id of
\* a record that is in the Record Log.
C35_LastRecordInLog ==
    lastRecord # <<>> => lastRecord[1].id \in IdsOf(records)

\* The instances whose camera session runs.
Sessions == {qr \in 1..Len(qrState) : qrState[qr].state = SCANNING}

\* C36: start and stop of the scanner are safe under any interleaving.  Once
\* no operation is pending, no session made by a request older than the
\* current one runs, and no session runs at all while isScanning is false;
\* in the queued version only the operation at the head of the queue has
\* begun, the ones behind it wait in the order they were queued.
C36_ScannerStartStop ==
    /\ tasks = <<>> => \A qr \in Sessions : qrState[qr].id = requestId
    /\ (tasks = <<>> /\ ~isScanning) => Sessions = {}
    /\ variant = 2 => \A i \in 2..Len(tasks) : tasks[i].pc = "queued"

\* C37: the related-items list follows the latest scan.  Once the effect
\* has run for the current last record and every lookup has completed, the
\* related items shown are the ones of the current last record and the
\* loading flag is off.
C37_RelatedFollowsLatest ==
    (relatedDeps = lastRecord /\ lastRecord # <<>> /\ relatedPending = {})
      => /\ relatedItems = findRelatedItems(masterItems, lastRecord[1])
         /\ ~relatedLoading

\* C38: a catalog item is related to itself.  When findRelatedItems has
\* been called with the VendorPN and the Description of an item of the
\* catalog, and the VendorPN is usable or the Description is neither empty
\* nor NA, the answer contains the item.
C38_RelatedToItself ==
    (answer.done /\ query.fn = "findRelatedItems")
      => \A x \in masterItems :
           (/\ x.VendorPN = query.record.VendorPN
            /\ x.Description = query.record.Description
            /\ (UsableVendorPN(x.VendorPN) \/ (x.Description # <<>> /\ x.Description # NA)))
             => x \in answer.set

\* The rows of the report in a state.
ReportNow == FullReportRows(masterItems, records)

\* The records whose PartID no catalog item has.
Uncatalogued == {i \in 1..Len(records) : \A m \in masterItems : m.PartID # records[i].PartID}

\* C39: the full stock-take report partitions catalog and log.  It has one
\* row per catalog item, first, marked with the ScanStatus of a record of
\* that PartID and Normal when there is one and with Missing otherwise,
\* and after them one row for every record whose PartID is not in the
\* catalog; nothing is left out or listed twice.
C39_ReportPartitions ==
    LET rows == ReportNow
        n == Cardinality(masterItems)
    IN  /\ Len(rows) = n + Cardinality(Uncatalogued)
        /\ \A m \in masterItems :
             /\ Cardinality({k \in 1..Len(rows) : rows[k][2] = m.PartID}) = 1
             /\ \E k \in 1..n :
                  /\ rows[k][2] = m.PartID
                  /\ IF m.PartID \in PartIDsOf(records)
                     THEN /\ rows[k][8] = Normal
                          /\ \E i \in 1..Len(records) :
                               /\ records[i].PartID = m.PartID
                               /\ rows[k][7] = records[i].Status
                     ELSE rows[k][8] = Missing
        /\ \A i \in Uncatalogued :
             \E k \in (n + 1)..Len(rows) :
               /\ rows[k][2] = records[i].PartID
               /\ rows[k][7] = records[i].Status
               /\ rows[k][13] = records[i].scannedBy

\* C40: in the stock-status view the completed count never exceeds the
\* target count, overall and for every customer category: the remaining
\* count is never negative and the progress percentage never exceeds 100.
C40_CompletedWithinTarget ==
    \A customerFilter \in CUSTOMER_CATEGORIES :
      LET data == displayData(customerFilter, masterItems, records)
      IN  /\ data.current <= data.target
          /\ data.target - data.current >= 0
          /\ progressPct(data) <= 100

====
